---- MODULE Spec2Model ----
(***************************************************************************)
(* Skylogic: air-quality forecasting pipeline (forecasting_system.py), the *)
(* dashboard prediction service (ml_prediction_service.py) and the AQI     *)
(* breakpoint interpolation shared by the scripts.                         *)
(*                                                                         *)
(* Concentrations are fixed-point integers in hundredths of a ug/m3, so    *)
(* 12.05 ug/m3 is 1205.  A float AQI is the exact rational num/den.        *)
(***************************************************************************)
EXTENDS Integers, Sequences, FiniteSets, TLC

VARIABLES
    \* ---- calculate_aqi (all four implementations) ----
    concentration,   \* argument, hundredths of ug/m3
    pollutant,       \* "pm25" or "pm10"
    aqi_forecast,    \* result of AirQualityForecaster.calculate_aqi
    aqi_dashboard,   \* result of DashboardMLPredictor.calculate_aqi
    aqi_simple,      \* result of simple_ml_predictor.calculate_aqi
    aqi_training,    \* result of AirQualityFlightSafetyPredictor.calculate_aqi
    called,          \* the implementations that have returned
    \* ---- AirQualityForecaster: inputs ----
    files,           \* the source tables in the order they are supplied
    fileLen,         \* rows of each site's source table
    readable,        \* whether read_csv succeeds on the site's table
    descending,      \* the tables list their rows newest first
    \* ---- AirQualityForecaster: object and run state ----
    pc,              \* position in main(): start, loop, trained, failed, ...
    featured,        \* prepare_forecast_data: the concatenated city tables before dropna
    df,              \* the table returned by prepare_forecast_data
    feature_columns, \* self.feature_columns
    hidx,            \* index in horizons of the iteration that ran last
    X_aligned,       \* feature rows of the last horizon iteration
    y_pm25,          \* PM2.5 labels of the last horizon iteration
    y_pm10,          \* PM10 labels of the last horizon iteration
    models,          \* self.models
    \* ---- AirQualityForecaster.forecast_next_48_hours ----
    current_conditions, \* the one-row frame passed in
    model_output,    \* what predict returns, per target
    X_current,       \* the frame after the reorder
    handed,          \* the frames passed to predict, with the model's key
    forecasts,       \* the returned dict
    outcome,         \* none, returned or the exception raised
    \* ---- DashboardMLPredictor ----
    dash_pc,         \* idle, loaded or predicted
    dash_feature_columns, \* self.feature_columns
    dash_models,     \* keys of self.models, in dict order
    request,         \* arguments of predict_conditions
    now,             \* datetime.now() as read by create_features_for_location
    dash_output,     \* how the loaded models answer predict
    feature_df,      \* the frame after the reorder
    dash_handed,     \* the frames passed to predict, with the target
    predictions,     \* the returned dict
    \* ---- artifact store and the ml_prediction_service process ----
    aviation_pkl,    \* air_quality_flight_safety_models.pkl
    forecast_pkl,    \* air_quality_forecast_models.pkl
    forecast_models, \* self.forecast_models of the dashboard predictor
    forecast_feature_columns, \* self.forecast_feature_columns
    argv,            \* the command given to ml_prediction_service
    sites_data,      \* the JSON input of the predict command
    results,         \* what the process printed as its result
    exit_status,     \* exit status of the process, NoInt while it has not ended
    \* ---- the batch entry points run as scripts ----
    main_message,    \* the closing message of forecasting_system.main()
    main_status,     \* exit status of `python forecasting_system.py`
    nc4_files,       \* ./merra2_data/*.nc4 as glob lists them
    merra2_message,  \* the closing message of process_merra2_to_csv()
    merra2_status,   \* exit status of `python netcdf4_TO_CSV.py`
    \* ---- alert generation ----
    aviation_predictions, \* argument of generate_alerts
    alerts,          \* the list generate_alerts returns
    forecast_alerts, \* the list generate_forecast_alerts returns
    alert_pc,        \* the alert functions that have returned
    \* ---- AirQualityFlightSafetyPredictor.load_and_prepare_data ----
    aviation_pc,     \* idle, start, prepared or failed
    aviation_data,   \* self.data: the prepared rows
    \* ---- simple_ml_predictor.ml_predict_conditions ----
    simple_request,  \* the arguments of the call
    seasonal_factor, \* 1 + 0.2 sin(...) of the day of the call, in thousandths
    noise,           \* the three draws of np.random.normal, in thousandths
    simple_prediction \* the returned dict

aqiVars == <<concentration, pollutant, aqi_forecast, aqi_dashboard,
             aqi_simple, aqi_training, called>>

inputVars == <<files, fileLen, readable, descending>>

trainVars == <<pc, featured, df, feature_columns, hidx, X_aligned, y_pm25, y_pm10, models>>

forecastVars == <<current_conditions, model_output, X_current, handed, forecasts, outcome>>

dashVars == <<dash_pc, dash_feature_columns, dash_models, request, now, dash_output,
              feature_df, dash_handed, predictions>>

inferVars == <<forecastVars, dashVars>>

serviceVars == <<aviation_pkl, forecast_pkl, forecast_models, forecast_feature_columns,
                 argv, sites_data, results, exit_status>>

batchVars == <<main_message, main_status, nc4_files, merra2_message, merra2_status>>

alertVars == <<aviation_predictions, alerts, forecast_alerts, alert_pc>>

aviationVars == <<aviation_pc, aviation_data>>

simpleVars == <<simple_request, seasonal_factor, noise, simple_prediction>>

vars == <<aqiVars, inputVars, trainVars, inferVars, serviceVars, batchVars, alertVars,
          aviationVars, simpleVars>>

\* values of a result variable before its call has returned
NoRat == [num |-> 0, den |-> 0]
NoInt == 0 - 1

(***************************************************************************)
(* Bounds of the AQI inputs (hundredths of ug/m3).                         *)
(***************************************************************************)
MaxConc == 51000
MinConc == 50

Pollutants == {"pm25", "pm10"}

(***************************************************************************)
(* Breakpoint tables: <<bp_low, bp_high, aqi_low, aqi_high>>, bp in        *)
(* hundredths.                                                             *)
(***************************************************************************)
BreakpointsPM25 ==
    << <<0, 1200, 0, 50>>,       <<1210, 3540, 51, 100>>,
       <<3550, 5540, 101, 150>>, <<5550, 15040, 151, 200>>,
       <<15050, 25040, 201, 300>>, <<25050, 35040, 301, 400>> >>

BreakpointsPM10 ==
    << <<0, 5400, 0, 50>>,        <<5500, 15400, 51, 100>>,
       <<15500, 25400, 101, 150>>, <<25500, 35400, 151, 200>>,
       <<35500, 42400, 201, 300>>, <<42500, 50400, 301, 400>> >>

breakpoints(p) == IF p = "pm25" THEN BreakpointsPM25 ELSE BreakpointsPM10

AboveHighest == 500

Rat(n, d) == [num |-> n, den |-> d]

\* the interpolation without its + aqi_low term
InterpolateNoOffset(bp, c) ==
    Rat((bp[4] - bp[3]) * (c - bp[1]), bp[2] - bp[1])

\* ((aqi_high - aqi_low) / (bp_high - bp_low)) * (c - bp_low) + aqi_low
Interpolate(bp, c) ==
    Rat((bp[4] - bp[3]) * (c - bp[1]) + bp[3] * (bp[2] - bp[1]), bp[2] - bp[1])

\* index of the first bracket with bp_low <= c <= bp_high, 0 when the loop
\* runs off the end of the table
RECURSIVE FirstBracket(_, _, _)
FirstBracket(bps, c, i) ==
    IF i > Len(bps) THEN 0
    ELSE IF bps[i][1] <= c /\ c <= bps[i][2] THEN i
    ELSE FirstBracket(bps, c, i + 1)

\* Python round(): to the nearest integer, ties to the even one
Round(q) ==
    LET f == q.num \div q.den
        r == q.num - f * q.den
    IN  IF 2 * r < q.den THEN f
        ELSE IF 2 * r > q.den THEN f + 1
        ELSE IF f % 2 = 0 THEN f ELSE f + 1

\* AirQualityForecaster.calculate_aqi: unrounded, 500 when no bracket matches
ForecasterCalculateAqi(c, p) ==
    LET bps == breakpoints(p)
        i == FirstBracket(bps, c, 1)
    IN  IF i # 0 THEN Interpolate(bps[i], c) ELSE Rat(AboveHighest, 1)

\* calculate_aqi without the test for a concentration above the table
DashboardCalculateAqiNoCeiling(c, p) ==
    LET bps == breakpoints(p)
        i == FirstBracket(bps, c, 1)
    IN  IF i # 0 THEN Round(Interpolate(bps[i], c)) ELSE 0

\* DashboardMLPredictor.calculate_aqi: rounded, 500 above the table, else 0
DashboardCalculateAqi(c, p) ==
    LET bps == breakpoints(p)
        i == FirstBracket(bps, c, 1)
    IN  IF i # 0 THEN Round(Interpolate(bps[i], c))
        ELSE IF c > bps[Len(bps)][2] THEN AboveHighest
        ELSE 0

\* simple_ml_predictor.calculate_aqi
SimpleCalculateAqi(c, p) ==
    LET bps == breakpoints(p)
        i == FirstBracket(bps, c, 1)
    IN  IF i # 0 THEN Round(Interpolate(bps[i], c))
        ELSE IF c > bps[Len(bps)][2] THEN AboveHighest
        ELSE 0

\* AirQualityFlightSafetyPredictor.calculate_aqi, one element of the series
TrainingCalculateAqi(c, p) ==
    LET bps == breakpoints(p)
        i == FirstBracket(bps, c, 1)
        a0 == IF i # 0 THEN Interpolate(bps[i], c) ELSE Rat(0, 1)
        a1 == IF c > bps[Len(bps)][2] THEN Rat(AboveHighest, 1) ELSE a0
    IN  Round(a1)

(***************************************************************************)
(* Tables.  A measurement is a positive integer, NaN is a missing value.   *)
(* A rolling mean is the exact rational sum/count.                         *)
(***************************************************************************)
NaN == 0 - 1

\* series lengths of a source table; MaxLen bounds them
MaxLen == 80

lag_hours == <<1, 2, 3, 6, 12, 24>>

lag_columns == <<"PM2.5", "PM10", "Temperature", "Humidity", "Wind Speed", "Dust">>

rolling_windows == <<6, 24>>

horizons == <<1, 6, 12, 24, 48>>

MinTrainRows == 100

\* measurement columns of a source table, in file order
csv_columns == <<"Temperature", "Humidity", "Wind Speed", "Wind Direction",
                 "Pressure", "Dust", "Aerosol Optical Depth", "PM2.5", "PM10">>

seasonal_columns == <<"hour_sin", "hour_cos", "day_sin", "day_cos">>

\* the three configured files, as listed in prepare_forecast_data
ConfiguredFiles == <<"Muscat", "Musandam", "Salalah">>

Sites == {"Musandam", "Muscat", "Salalah"}

\* position of a city name in string order
CityRank(c) ==
    CASE c = "Musandam" -> 1
      [] c = "Muscat" -> 2
      [] c = "Salalah" -> 3
      [] OTHER -> 4

Range(seq) == {seq[i] : i \in 1..Len(seq)}

IndexOf(seq, x) == CHOOSE i \in 1..Len(seq) : seq[i] = x

\* the value a source table holds for a measurement of a site at an hour
Measurement(col, site, t) ==
    IndexOf(csv_columns, col) * 1000000 + CityRank(site) * 1000 + t

\* one row as read_csv returns it, tagged with its city
CsvRow(site, t) ==
    [City |-> site, DateTime |-> t,
     raw |-> [c \in Range(csv_columns) |-> Measurement(c, site, t)]]

\* pd.read_csv(f) followed by temp_df['City'] = city_name
ReadCsv(site, n, desc) ==
    [i \in 1..n |-> CsvRow(site, IF desc THEN n + 1 - i ELSE i)]

\* a sequence with every element evaluated
Explicit(seq) == SubSeq(seq, 1, Len(seq))

RECURSIVE ConcatFrom(_, _)
ConcatFrom(seqs, i) ==
    IF i > Len(seqs) THEN <<>> ELSE seqs[i] \o ConcatFrom(seqs, i + 1)

\* pd.concat(frames, ignore_index=True)
Concat(seqs) == ConcatFrom(Explicit(seqs), 1)

\* df.sort_values('DateTime').reset_index(drop=True)
SortByDateTime(rows) ==
    LET Before(a, b) == a.DateTime < b.DateTime
    IN  SortSeq(Explicit(rows), Before)

\* df.sort_values(['City', 'DateTime']).reset_index(drop=True)
SortByCityDateTime(rows) ==
    LET Before(a, b) ==
            \/ CityRank(a.City) < CityRank(b.City)
            \/ (a.City = b.City /\ a.DateTime < b.DateTime)
    IN  SortSeq(Explicit(rows), Before)

\* shift(k) that fills the first k rows with the first value instead of NaN
ShiftBackfilled(vals, k) ==
    LET v == Explicit(vals)
    IN  [i \in 1..Len(v) |-> IF i - k >= 1 THEN v[i - k] ELSE v[1]]

\* series.shift(k) for k > 0: the value k rows earlier, NaN for the first k
Shift(vals, k) ==
    LET v == Explicit(vals)
    IN  [i \in 1..Len(v) |-> IF i - k >= 1 THEN v[i - k] ELSE NaN]

\* the shift taken in the other direction
ShiftForward(vals, h) == Shift(vals, h)

\* series.shift(-h): the value h rows later, NaN for the last h
ShiftBack(vals, h) ==
    LET v == Explicit(vals)
        n == Len(v)
    IN  [i \in 1..n |-> IF i + h <= n THEN v[i + h] ELSE NaN]

IsNumber(v) == v # NaN

\* series.dropna()
DropNa(vals) == SelectSeq(vals, IsNumber)

\* vals[a] + ... + vals[b], six terms to a step
RECURSIVE SumRange(_, _, _)
SumRange(vals, a, b) ==
    IF a > b THEN 0
    ELSE IF b - a >= 5
         THEN vals[b] + vals[b - 1] + vals[b - 2] + vals[b - 3] + vals[b - 4]
                + vals[b - 5] + SumRange(vals, a, b - 6)
         ELSE vals[b] + SumRange(vals, a, b - 1)

\* series.rolling(window=w, min_periods=1).mean()
RollingMean(vals, w) ==
    LET v == Explicit(vals)
    IN  [i \in 1..Len(v) |->
            LET a == IF i - w + 1 >= 1 THEN i - w + 1 ELSE 1
            IN  Rat(SumRange(v, a, i), i - a + 1)]

Column(rows, col) == [i \in 1..Len(rows) |-> rows[i].raw[col]]

\* the angle index behind a seasonal column: hour of day or day of year
SeasonalValue(col, t) ==
    IF col \in {"hour_sin", "hour_cos"} THEN (t - 1) % 24
    ELSE (((t - 1) \div 24) % 365) + 1

\* AirQualityForecaster.create_time_series_features
create_time_series_features(rows) ==
    LET sorted == SortByDateTime(rows)
        nc == Len(lag_columns)
        series == Explicit([ci \in 1..nc |-> Explicit(Column(sorted, lag_columns[ci]))])
        lagOf == Explicit([ci \in 1..nc |->
                    Explicit([ki \in 1..Len(lag_hours) |->
                        Explicit(Shift(series[ci], lag_hours[ki]))])])
        rollOf == Explicit([ci \in 1..nc |->
                    Explicit([wi \in 1..Len(rolling_windows) |->
                        Explicit(RollingMean(series[ci], rolling_windows[wi]))])])
    IN  [i \in 1..Len(sorted) |->
            [City |-> sorted[i].City,
             DateTime |-> sorted[i].DateTime,
             raw |-> sorted[i].raw,
             lag |-> [c \in Range(lag_columns) |->
                        [k \in Range(lag_hours) |->
                            lagOf[IndexOf(lag_columns, c)][IndexOf(lag_hours, k)][i]]],
             rolling |-> [c \in Range(lag_columns) |->
                        [w \in Range(rolling_windows) |->
                            rollOf[IndexOf(lag_columns, c)][IndexOf(rolling_windows, w)][i]]],
             seasonal |-> [c \in Range(seasonal_columns) |->
                        SeasonalValue(c, sorted[i].DateTime)]]]

HasNaN(row) ==
    \E c \in Range(lag_columns) : \E k \in Range(lag_hours) : row.lag[c][k] = NaN

NoNaN(row) == ~HasNaN(row)

\* df['City'].unique(): the cities in order of first appearance
Unique(rows) ==
    LET IsFirst(i) == \A j \in 1..(i - 1) : rows[j].City # rows[i].City
        firsts == SelectSeq([i \in 1..Len(rows) |-> i], IsFirst)
    IN  [i \in 1..Len(firsts) |-> rows[firsts[i]].City]

IsReadable(site) == readable[site]

\* df_list of prepare_forecast_data: the readable tables, in file order
DfList(fs, len, desc) ==
    LET ok == SelectSeq(fs, IsReadable)
    IN  [i \in 1..Len(ok) |-> ReadCsv(ok[i], len[ok[i]], desc)]

ofCity(rows, city) == LET Is(r) == r.City = city IN SelectSeq(rows, Is)

\* prepare_forecast_data without the per-city loop: the features are built on
\* the whole concatenated table
prepare_features_ungrouped(fs, len, desc) ==
    LET df_list == DfList(fs, len, desc)
        all == Concat(df_list)
    IN  IF df_list = <<>> THEN [raised |-> "ValueError", df |-> <<>>]
        ELSE IF all = <<>> THEN [raised |-> "ValueError", df |-> <<>>]
        ELSE [raised |-> "no", df |-> Explicit(create_time_series_features(all))]

\* AirQualityForecaster.prepare_forecast_data up to the concatenation of the
\* per-city tables: that table, or the exception raised
prepare_city_features(fs, len, desc) ==
    LET df_list == DfList(fs, len, desc)
        all == SortByCityDateTime(Concat(df_list))
        cities == Unique(all)
        city_dfs == [i \in 1..Len(cities) |->
                        create_time_series_features(ofCity(all, cities[i]))]
    IN  IF df_list = <<>> THEN [raised |-> "ValueError", df |-> <<>>]
        ELSE IF cities = <<>> THEN [raised |-> "ValueError", df |-> <<>>]
        ELSE [raised |-> "no", df |-> Concat(city_dfs)]

\* df.dropna()
DropNaRows(rows) == SelectSeq(rows, NoNaN)

(***************************************************************************)
(* Column names.  kind is raw, lag, rolling, seasonal or City; a name      *)
(* starts with 'City_' exactly when its kind is City.                      *)
(***************************************************************************)
Col(kind, name, k) == [kind |-> kind, name |-> name, k |-> k]

IsCityCol(c) == c.kind = "City"

NotCityCol(c) == ~IsCityCol(c)

IsFeatureCsvColumn(c) == c \notin {"PM2.5", "PM10"}

\* the columns of the prepared table that are not in exclude_cols
feature_cols ==
    LET kept == SelectSeq(csv_columns, IsFeatureCsvColumn)
        nl == Len(lag_hours)
        nw == Len(rolling_windows)
    IN  [i \in 1..Len(kept) |-> Col("raw", kept[i], 0)]
        \o [i \in 1..(Len(lag_columns) * nl) |->
              Col("lag", lag_columns[((i - 1) \div nl) + 1], lag_hours[((i - 1) % nl) + 1])]
        \o [i \in 1..(Len(lag_columns) * nw) |->
              Col("rolling", lag_columns[((i - 1) \div nw) + 1], rolling_windows[((i - 1) % nw) + 1])]
        \o [i \in 1..Len(seasonal_columns) |-> Col("seasonal", seasonal_columns[i], 0)]

\* pd.get_dummies(df['City'], prefix='City').columns: the cities of the
\* table in string order
GetDummiesColumns(rows) ==
    LET present == {rows[i].City : i \in 1..Len(rows)}
        IsPresent(c) == c \in present
        sorted == SelectSeq(<<"Musandam", "Muscat", "Salalah">>, IsPresent)
    IN  [i \in 1..Len(sorted) |-> Col("City", sorted[i], 0)]

\* the value of column c in a row of X
Value(row, c) ==
    CASE c.kind = "raw" -> row.raw[c.name]
      [] c.kind = "lag" -> row.lag[c.name][c.k]
      [] c.kind = "rolling" -> row.rolling[c.name][c.k]
      [] c.kind = "seasonal" -> row.seasonal[c.name]
      [] c.kind = "City" -> IF row.City = c.name THEN 1 ELSE 0

ModelKey(target, h) == [target |-> target, horizon |-> h]

\* a fitted RandomForestRegressor: opaque, identified by what it was fit on
Fit(target, h, X, y) == [target |-> target, horizon |-> h, rows |-> Len(X), labels |-> Len(y)]

NoModels == [k \in {} |-> 0]

\* calculate_aqi has not been called
AqiIdle ==
    /\ concentration = 0
    /\ pollutant = "pm25"
    /\ aqi_forecast = NoRat
    /\ aqi_dashboard = NoInt
    /\ aqi_simple = NoInt
    /\ aqi_training = NoInt
    /\ called = {}

NoForecasts == [h \in {} |-> 0]

NoPredictions == [t \in {} |-> 0]

NoConditions == [has_city |-> FALSE, City |-> "", values |-> [c \in {} |-> 0]]

NoRequest == [site |-> "", region |-> "", hour |-> 0, temperature |-> 0, humidity |-> 0,
              wind_speed |-> 0, pressure |-> 0, dust |-> 0, aod |-> 0]

\* no forecast has been asked of the forecaster
ForecastIdle ==
    /\ current_conditions = NoConditions
    /\ model_output = [pm25 |-> 0, pm10 |-> 0]
    /\ X_current = <<>>
    /\ handed = <<>>
    /\ forecasts = NoForecasts
    /\ outcome = "none"

\* no dashboard predictor has been constructed
DashIdle ==
    /\ dash_pc = "idle"
    /\ dash_feature_columns = <<>>
    /\ dash_models = <<>>
    /\ request = NoRequest
    /\ now = [weekday |-> 0, month |-> 1]
    /\ dash_output = "none"
    /\ feature_df = <<>>
    /\ dash_handed = <<>>
    /\ predictions = NoPredictions

\* a pickle file: absent, unreadable by joblib.load, or the dumped dict
AbsentPkl == [state |-> "absent", data |-> [k \in {} |-> 0]]

CorruptPkl == [state |-> "corrupt", data |-> [k \in {} |-> 0]]

\* joblib.dump(data, path)
Dump(data) == [state |-> "saved", data |-> data]

\* the training script of the aviation models has not loaded its data
AviationIdle ==
    /\ aviation_pc = "idle"
    /\ aviation_data = <<>>

NoSimpleRequest == [site |-> "", region |-> "", hour |-> 0, temperature |-> 0,
                    humidity |-> 0, wind_speed |-> 0, pressure |-> 0, base_pm25 |-> 0]

NoNoise == [pm25 |-> 0, pm10 |-> 0, dust |-> 0]

\* ml_predict_conditions has not been called
SimpleIdle ==
    /\ simple_request = NoSimpleRequest
    /\ seasonal_factor = 1000
    /\ noise = NoNoise
    /\ simple_prediction = [k \in {} |-> 0]

\* neither script has been started
BatchIdle ==
    /\ main_message = ""
    /\ main_status = NoInt
    /\ nc4_files = <<>>
    /\ merra2_message = ""
    /\ merra2_status = NoInt

NoAviationPredictions == [t \in {} |-> 0]

\* no alert has been asked for
AlertsIdle ==
    /\ aviation_predictions = NoAviationPredictions
    /\ alerts = <<>>
    /\ forecast_alerts = <<>>
    /\ alert_pc = {}

\* no artifact has been written and no service process started
ServiceIdle ==
    /\ aviation_pkl = AbsentPkl
    /\ forecast_pkl = AbsentPkl
    /\ forecast_models = NoModels
    /\ forecast_feature_columns = <<>>
    /\ argv = <<>>
    /\ sites_data = <<>>
    /\ results = <<>>
    /\ exit_status = NoInt

(***************************************************************************)
(* AirQualityForecaster: train_forecast_models as run by main().           *)
(***************************************************************************)
TrainIdle ==
    /\ files = ConfiguredFiles
    /\ fileLen = [s \in Sites |-> 0]
    /\ readable = [s \in Sites |-> FALSE]
    /\ descending = FALSE
    /\ pc = "idle"
    /\ featured = <<>>
    /\ df = <<>>
    /\ feature_columns = <<>>
    /\ hidx = 0
    /\ X_aligned = <<>>
    /\ y_pm25 = <<>>
    /\ y_pm10 = <<>>
    /\ models = NoModels

Permutations3 ==
    {p \in [1..3 -> Sites] : \A i, j \in 1..3 : i # j => p[i] # p[j]}

LagMax == lag_hours[Len(lag_hours)]

\* the series lengths tried: a header-only table, one that is all warm-up
\* and a long one
SiteLens == {0, LagMax, MaxLen}

\* an unreadable table has no length; the newest-first layout is tried in
\* the configured file order only
InitTrain ==
    /\ files \in Permutations3
    /\ descending \in BOOLEAN
    /\ descending => files = ConfiguredFiles
    /\ readable \in [Sites -> BOOLEAN]
    /\ fileLen \in [Sites -> SiteLens]
    /\ \A s \in Sites : ~readable[s] => fileLen[s] = 0
    /\ ForecastIdle
    /\ DashIdle
    /\ ServiceIdle
    /\ BatchIdle
    /\ AlertsIdle
    /\ AviationIdle
    /\ SimpleIdle
    /\ pc = "start"
    /\ featured = <<>>
    /\ df = <<>>
    /\ feature_columns = <<>>
    /\ hidx = 0
    /\ X_aligned = <<>>
    /\ y_pm25 = <<>>
    /\ y_pm10 = <<>>
    /\ models = NoModels

\* train_forecast_models calls prepare_forecast_data: load, sort, and build
\* the features of each city
PrepareFeatures ==
    /\ pc = "start"
    /\ \E res \in {prepare_city_features(files, fileLen, descending)} :
           IF res.raised # "no"
           THEN /\ pc' = "failed"
                /\ UNCHANGED featured
           ELSE /\ pc' = "featured"
                /\ featured' = res.df
    /\ UNCHANGED <<df, feature_columns, hidx, X_aligned, y_pm25, y_pm10, models>>
    /\ UNCHANGED <<batchVars, alertVars, serviceVars, inputVars, aviationVars, simpleVars, aqiVars, inferVars>>

\* prepare_forecast_data drops the rows with NaN and returns;
\* train_forecast_models fixes feature_columns and enters the horizon loop
TrainBegin ==
    /\ pc = "featured"
    /\ \E prepared \in {DropNaRows(featured)} :
           /\ df' = prepared
           /\ feature_columns' = feature_cols \o GetDummiesColumns(prepared)
    /\ pc' = "loop"
    /\ featured' = <<>>
    /\ UNCHANGED <<hidx, X_aligned, y_pm25, y_pm10, models>>
    /\ UNCHANGED <<batchVars, alertVars, serviceVars, inputVars, aviationVars, simpleVars, aqiVars, inferVars>>

\* the row threshold left out: no horizon is ever short of rows
TooFewRowsNever(X) == FALSE

\* if len(X_aligned) < 100: continue
TooFewRows(X) == Len(X) < MinTrainRows

\* one iteration of the horizon loop
TrainHorizon ==
    /\ pc = "loop"
    /\ hidx < Len(horizons)
    /\ \E horizon \in {horizons[hidx + 1]} :
       \E y25 \in {DropNa(ShiftBack(Column(df, "PM2.5"), horizon))} :
       \E y10 \in {DropNa(ShiftBack(Column(df, "PM10"), horizon))} :
       \E X \in {SubSeq(df, 1, Len(y25))} :
           /\ hidx' = hidx + 1
           /\ y_pm25' = y25
           /\ y_pm10' = y10
           /\ X_aligned' = X
           /\ IF TooFewRows(X)
              THEN UNCHANGED models
              ELSE models' = (ModelKey("pm25", horizon) :> Fit("pm25", horizon, X, y25))
                             @@ (ModelKey("pm10", horizon) :> Fit("pm10", horizon, X, y10))
                             @@ models
    /\ UNCHANGED <<pc, featured, df, feature_columns>>
    /\ UNCHANGED <<batchVars, alertVars, serviceVars, inputVars, aviationVars, simpleVars, aqiVars, inferVars>>

\* the loop is exhausted: train_forecast_models returns
TrainEnd ==
    /\ pc = "loop"
    /\ hidx = Len(horizons)
    /\ pc' = "trained"
    /\ UNCHANGED <<featured, df, feature_columns, hidx, X_aligned, y_pm25, y_pm10, models>>
    /\ UNCHANGED <<batchVars, alertVars, serviceVars, inputVars, aviationVars, simpleVars, aqiVars, inferVars>>

NextTrain ==
    \/ PrepareFeatures
    \/ TrainBegin
    \/ TrainHorizon
    \/ TrainEnd

(***************************************************************************)
(* Frames: a one-row DataFrame is the sequence of its cells in column      *)
(* order.                                                                  *)
(***************************************************************************)
Cell(c, v) == [col |-> c, val |-> v]

ColumnsOf(frame) == [i \in 1..Len(frame) |-> frame[i].col]

HasColumn(frame, c) == \E i \in 1..Len(frame) : frame[i].col = c

ValueOf(frame, c) == frame[CHOOSE i \in 1..Len(frame) : frame[i].col = c].val

\* frame[cols] without the selection: the frame as it stands
ReorderKeepAll(frame, cols) == frame

\* frame[cols]: exactly the listed columns, in the listed order
Reorder(frame, cols) == [i \in 1..Len(cols) |-> Cell(cols[i], ValueOf(frame, cols[i]))]

\* frame[col] = 0 for every listed column the frame lacks
ZeroFill(frame, cols, zero) ==
    LET IsMissing(c) == ~HasColumn(frame, c)
        absent == SelectSeq(cols, IsMissing)
    IN  frame \o [i \in 1..Len(absent) |-> Cell(absent[i], zero)]

\* pred as the model returned it
ClampNothing(x) == x

\* max(0, pred)
ClampAtZero(x) == IF x > 0 THEN x ELSE 0

(***************************************************************************)
(* AirQualityForecaster.forecast_next_48_hours.  The record passed in is a *)
(* one-row frame: whether it has a City column, the city, and its numeric  *)
(* columns.                                                                *)
(***************************************************************************)
\* the city indicator row
CityDummies(cc, fcols) ==
    IF cc.has_city
    THEN LET own == Col("City", cc.City, 0)
             IsOther(c) == IsCityCol(c) /\ c # own
             others == SelectSeq(fcols, IsOther)
         IN  <<Cell(own, 1)>> \o [i \in 1..Len(others) |-> Cell(others[i], 0)]
    ELSE LET city_cols == SelectSeq(fcols, IsCityCol)
         IN  [i \in 1..Len(city_cols) |->
                Cell(city_cols[i], IF city_cols[i] = Col("City", "Muscat", 0) THEN 1 ELSE 0)]

\* every horizon, modelled or not
EveryHorizon(mods) == horizons

\* the horizons the loop forecasts: those with both models in self.models
ModelledHorizons(mods) ==
    LET HasBoth(h) == /\ ModelKey("pm25", h) \in DOMAIN mods
                      /\ ModelKey("pm10", h) \in DOMAIN mods
    IN  SelectSeq(horizons, HasBoth)

forecast_next_48_hours(cc, fcols, mods, out) ==
    LET city_dummies == CityDummies(cc, fcols)
        base_features == SelectSeq(fcols, NotCityCol)
    IN  IF \E i \in 1..Len(base_features) : base_features[i] \notin DOMAIN cc.values
        THEN [raised |-> "KeyError", X |-> <<>>, handed |-> <<>>, forecasts |-> NoForecasts]
        ELSE LET joined == [i \in 1..Len(base_features) |->
                              Cell(base_features[i], cc.values[base_features[i]])]
                           \o city_dummies
                 X == Reorder(ZeroFill(joined, fcols, 0), fcols)
                 ran == ModelledHorizons(mods)
             IN  [raised |-> "no",
                  X |-> X,
                  handed |-> [i \in 1..(2 * Len(ran)) |->
                                [model |-> ModelKey(IF i % 2 = 1 THEN "pm25" ELSE "pm10",
                                                    ran[(i + 1) \div 2]),
                                 frame |-> X]],
                  forecasts |-> [h \in Range(ran) |->
                                   [pm25 |-> ClampAtZero(out.pm25),
                                    pm10 |-> ClampAtZero(out.pm10),
                                    lead |-> h]]]

\* what a fitted model may answer, in ug/m3
MaxPred == 40

PredValues == {0 - MaxPred, 0, MaxPred}

\* a site no source table covers
UnseenCity == "Sohar"

AllBase == Range(feature_cols)

PMColumns == {Col("raw", "PM2.5", 0), Col("raw", "PM10", 0)}

RawColumns == {c \in AllBase : c.kind = "raw"} \cup PMColumns

\* the reading a record carries in a column
ReadingOf(c) == IF c \in AllBase THEN 10 + IndexOf(feature_cols, c) ELSE 5

\* the numeric columns of the records tried: every engineered column (what
\* main() passes after its own fill), the same with the two PM readings, the
\* raw measurements alone, and a record short of one lag column
ConditionShapes ==
    {AllBase,
     AllBase \cup PMColumns,
     RawColumns,
     (AllBase \cup PMColumns) \ {Col("lag", "PM2.5", 24)}}

Conditions(has_city, city, shape) ==
    [has_city |-> has_city, City |-> city, values |-> [c \in shape |-> ReadingOf(c)]]

\* feature_columns as train_forecast_models leaves it for a table of the
\* given cities
TrainedFeatureColumns(cities) ==
    LET IsTrained(c) == c \in cities
        sorted == SelectSeq(<<"Musandam", "Muscat", "Salalah">>, IsTrained)
    IN  feature_cols \o [i \in 1..Len(sorted) |-> Col("City", sorted[i], 0)]

\* self.models after the first k horizons passed the row threshold
TrainedModels(k) ==
    [key \in {ModelKey(t, horizons[i]) : t \in {"pm25", "pm10"}, i \in 1..k} |->
        [target |-> key.target, horizon |-> key.horizon,
         rows |-> MinTrainRows, labels |-> MinTrainRows]]

\* a forecaster as train_forecast_models can leave it, or a fresh one, and a
\* record to forecast from
InitForecast ==
    /\ files = ConfiguredFiles
    /\ fileLen = [s \in Sites |-> 0]
    /\ readable = [s \in Sites |-> FALSE]
    /\ descending = FALSE
    /\ featured = <<>>
    /\ df = <<>>
    /\ hidx = 0
    /\ X_aligned = <<>>
    /\ y_pm25 = <<>>
    /\ y_pm10 = <<>>
    /\ \/ /\ pc = "start"
          /\ feature_columns = <<>>
          /\ models = NoModels
       \/ /\ pc = "trained"
          /\ \E cities \in SUBSET Sites, k \in 0..Len(horizons) :
                 /\ cities = {} => k = 0
                 /\ feature_columns = TrainedFeatureColumns(cities)
                 /\ models = TrainedModels(k)
    /\ \E city \in Sites \cup {UnseenCity}, has_city \in BOOLEAN, shape \in ConditionShapes :
           /\ ~has_city => city = "Muscat"
           /\ current_conditions = Conditions(has_city, IF has_city THEN city ELSE "", shape)
    /\ model_output \in [pm25 : PredValues, pm10 : PredValues]
    /\ X_current = <<>>
    /\ handed = <<>>
    /\ forecasts = NoForecasts
    /\ outcome = "none"

Forecast ==
    /\ pc \in {"start", "trained"}
    /\ outcome = "none"
    /\ \E res \in {forecast_next_48_hours(current_conditions, feature_columns,
                                          models, model_output)} :
           /\ outcome' = (IF res.raised = "no" THEN "returned" ELSE res.raised)
           /\ X_current' = res.X
           /\ handed' = res.handed
           /\ forecasts' = res.forecasts
    /\ UNCHANGED <<current_conditions, model_output>>
    /\ UNCHANGED <<batchVars, alertVars, serviceVars, inputVars, aviationVars, simpleVars, aqiVars, trainVars, dashVars>>

(***************************************************************************)
(* DashboardMLPredictor (ml_prediction_service.py).  Feature values are    *)
(* exact rationals; the aerosol optical depth of a request is in           *)
(* hundredths; predictions are in hundredths except the AQI.               *)
(***************************************************************************)
\* base_features of AirQualityFlightSafetyPredictor.prepare_features: the
\* columns the loaded models were trained on, before the city indicators
aviation_base_features ==
    <<"Temperature", "Humidity", "Wind Speed", "Wind Direction", "Pressure", "Dust",
      "Aerosol Optical Depth", "Hour", "DayOfWeek", "Month", "Season", "IsWeekend",
      "Visibility_Est", "Turbulence_Risk", "Air_Density", "Dust_Wind_Factor",
      "Pressure_Stability", "Temp_Humidity_Index">>

\* the y_targets of the training script, in dict order
aviation_targets ==
    <<"PM2.5", "PM10", "Visibility_Est", "Flight_Safety_Score", "Overall_AQI">>

\* the cities create_features_for_location knows
dashboard_cities == <<"Musandam", "Muscat", "Salalah">>

Feature(name) == Col("feature", name, 0)

get_season(month) ==
    IF month \in {12, 1, 2} THEN 0
    ELSE IF month \in {3, 4, 5} THEN 1
    ELSE IF month \in {6, 7, 8} THEN 2
    ELSE 3

\* the hours of day tried: those where sin(hour * pi / 12) is exact
DashHours == {0, 6, 12, 18}

\* sin(hour * pi / 12) at those hours
SinHour(hour) == CASE hour = 6 -> 1 [] hour = 18 -> 0 - 1 [] OTHER -> 0

Abs(x) == IF x < 0 THEN 0 - x ELSE x

\* np.clip(q, 0, 1)
Clip01(q) == IF q.num < 0 THEN Rat(0, 1) ELSE IF q.num > q.den THEN Rat(1, 1) ELSE q

create_features_for_location(req, clock) ==
    <<Cell(Feature("Temperature"), Rat(req.temperature, 1)),
      Cell(Feature("Humidity"), Rat(req.humidity, 1)),
      Cell(Feature("Wind Speed"), Rat(req.wind_speed, 1)),
      Cell(Feature("Wind Direction"), Rat(180 + 60 * SinHour(req.hour), 1)),
      Cell(Feature("Pressure"), Rat(req.pressure, 1)),
      Cell(Feature("Dust"), Rat(req.dust, 1)),
      Cell(Feature("Aerosol Optical Depth"), Rat(req.aod, 100)),
      Cell(Feature("Hour"), Rat(req.hour, 1)),
      Cell(Feature("DayOfWeek"), Rat(clock.weekday, 1)),
      Cell(Feature("Month"), Rat(clock.month, 1)),
      Cell(Feature("Season"), Rat(get_season(clock.month), 1)),
      Cell(Feature("IsWeekend"), Rat(IF clock.weekday >= 5 THEN 1 ELSE 0, 1)),
      Cell(Feature("Visibility_Est"), Rat(50 * 200, 200 + req.dust + 200 * req.aod)),
      Cell(Feature("Turbulence_Risk"), Clip01(Rat(8 * req.wind_speed + req.dust, 200))),
      Cell(Feature("Air_Density"),
           Rat(req.pressure * 100 * 10000, 28705 * (100 * req.temperature + 27315))),
      Cell(Feature("Dust_Wind_Factor"), Rat(req.dust * req.wind_speed, 2500)),
      Cell(Feature("Pressure_Stability"), Rat(Abs(100 * req.pressure - 101325), 5000)),
      Cell(Feature("Temp_Humidity_Index"), Rat(req.temperature * (100 + req.humidity), 100))>>
    \o [i \in 1..Len(dashboard_cities) |->
          Cell(Col("City", dashboard_cities[i], 0),
               Rat(IF req.region = dashboard_cities[i] \/ req.site = dashboard_cities[i]
                   THEN 1 ELSE 0, 1))]

\* how the loaded models answer: every call returns a positive value,
\* every call a negative one, the PM2.5 model raises, or every model raises
DashOutputs == {"positive", "negative", "pm25_raises", "all_raise"}

Raises(kind, target) ==
    \/ kind = "all_raise"
    \/ kind = "pm25_raises" /\ target = "PM2.5"

\* model.predict(feature_df)[0], in hundredths
Predicted(kind, target) == IF kind = "negative" THEN 0 - 300 ELSE 1500

\* no fallback table: every failed target gets 0
fallback_nothing(target) == 0

\* fallback_values.get(target_name, 0), in hundredths
fallback_values(target) ==
    CASE target = "PM2.5" -> 2000
      [] target = "PM10" -> 4000
      [] target = "Visibility_Est" -> 1500
      [] target = "Flight_Safety_Score" -> 70
      [] target = "Overall_AQI" -> 5000
      [] OTHER -> 0

MaxOf(a, b) == IF a >= b THEN a ELSE b

predict_conditions(req, clock, fcols, targets, kind) ==
    LET features == create_features_for_location(req, clock)
        frame == Reorder(ZeroFill(features, fcols, Rat(0, 1)), fcols)
        by_model == [t \in Range(targets) |->
                       IF Raises(kind, t) THEN fallback_values(t)
                       ELSE ClampAtZero(Predicted(kind, t))]
        Get(t, default) == IF t \in DOMAIN by_model THEN by_model[t] ELSE default
        aqi == MaxOf(DashboardCalculateAqi(Get("PM2.5", 2000), "pm25"),
                     DashboardCalculateAqi(Get("PM10", 4000), "pm10"))
    IN  [feature_df |-> frame,
         handed |-> [i \in 1..Len(targets) |-> [model |-> targets[i], frame |-> frame]],
         predictions |-> [t \in Range(targets) \cup {"AQI"} |->
                            IF t = "AQI" THEN aqi ELSE by_model[t]]]

\* feature_columns of the pickle written by the training script for the
\* given cities
AviationFeatureColumns(cities) ==
    LET IsTrained(c) == c \in cities
        sorted == SelectSeq(<<"Musandam", "Muscat", "Salalah", UnseenCity>>, IsTrained)
    IN  [i \in 1..Len(aviation_base_features) |-> Feature(aviation_base_features[i])]
        \o [i \in 1..Len(sorted) |-> Col("City", sorted[i], 0)]

\* the weather of a request: the defaults of predict_conditions, or a dust
\* storm
Weathers ==
    {[temperature |-> 25, humidity |-> 60, wind_speed |-> 10, pressure |-> 1013,
      dust |-> 50, aod |-> 20],
     [temperature |-> 40, humidity |-> 20, wind_speed |-> 30, pressure |-> 990,
      dust |-> 400, aod |-> 150]}

RequestSites == {"Muscat", "Salalah Airport", UnseenCity}

RequestRegions == {"Muscat", "Dhofar", "Musandam"}

Weekdays == {2, 5}

Months == {1, 7}

\* a predictor as load_models leaves it: no pickle found, or the pickle of a
\* training run over some cities
InitDashboard ==
    /\ dash_pc = "loaded"
    /\ \/ /\ dash_feature_columns = <<>>
          /\ dash_models = <<>>
       \/ /\ \E cities \in SUBSET (Sites \cup {UnseenCity}) :
                 dash_feature_columns = AviationFeatureColumns(cities)
          /\ dash_models = aviation_targets
    /\ \E site \in RequestSites, region \in RequestRegions, hour \in DashHours, w \in Weathers :
           request = [site |-> site, region |-> region, hour |-> hour,
                      temperature |-> w.temperature, humidity |-> w.humidity,
                      wind_speed |-> w.wind_speed, pressure |-> w.pressure,
                      dust |-> w.dust, aod |-> w.aod]
    /\ now \in [weekday : Weekdays, month : Months]
    /\ dash_output \in DashOutputs
    /\ feature_df = <<>>
    /\ dash_handed = <<>>
    /\ predictions = NoPredictions

PredictConditions ==
    /\ dash_pc = "loaded"
    /\ \E res \in {predict_conditions(request, now, dash_feature_columns,
                                      dash_models, dash_output)} :
           /\ feature_df' = res.feature_df
           /\ dash_handed' = res.handed
           /\ predictions' = res.predictions
    /\ dash_pc' = "predicted"
    /\ UNCHANGED <<dash_feature_columns, dash_models, request, now, dash_output>>
    /\ UNCHANGED <<batchVars, alertVars, serviceVars, inputVars, aviationVars, simpleVars, aqiVars, trainVars, forecastVars>>

(***************************************************************************)
(* The artifact store: save_forecast_models, save_models and               *)
(* DashboardMLPredictor.load_models.                                       *)
(***************************************************************************)
\* AirQualityForecaster.save_forecast_models: the dict it dumps
save_forecast_models(mods, fcols) ==
    Dump([models |-> mods, feature_columns |-> fcols])

\* AirQualityFlightSafetyPredictor.save_models after a training run over the
\* given cities
save_models(cities) ==
    Dump([models |-> aviation_targets,
          scalers |-> aviation_targets,
          feature_columns |-> AviationFeatureColumns(cities),
          thresholds |-> "thresholds"])

\* the keys load_models reads from each of the two dicts
LoadedKeys == {"models", "scalers", "feature_columns"}

\* joblib.load and the three subscripts go through without an exception
Loads(pkl) == pkl.state = "saved" /\ LoadedKeys \subseteq DOMAIN pkl.data

\* load_models: a file that does not exist is passed over; any exception
\* ends the process with status 1
load_models(avi, fc) ==
    IF \/ avi.state # "absent" /\ ~Loads(avi)
       \/ fc.state # "absent" /\ ~Loads(fc)
    THEN [exited |-> TRUE, models |-> <<>>, feature_columns |-> <<>>,
          forecast_models |-> NoModels, forecast_feature_columns |-> <<>>]
    ELSE [exited |-> FALSE,
          models |-> IF avi.state = "absent" THEN <<>> ELSE avi.data.models,
          feature_columns |-> IF avi.state = "absent" THEN <<>> ELSE avi.data.feature_columns,
          forecast_models |-> IF fc.state = "absent" THEN NoModels ELSE fc.data.models,
          forecast_feature_columns |->
              IF fc.state = "absent" THEN <<>> ELSE fc.data.feature_columns]

(***************************************************************************)
(* ml_prediction_service: predict_for_dashboard and main().  A site_info   *)
(* dict is a record whose fields are the keys present.                     *)
(***************************************************************************)
\* site_info.get(key, default)
Get(site_info, key, default) ==
    IF key \in DOMAIN site_info THEN site_info[key] ELSE default

\* the keys predict_for_dashboard subscripts
SubscriptedKeys == {"site", "lat", "lon", "region", "hour"}

\* the arguments predict_for_dashboard passes to predict_conditions
RequestOf(site_info) ==
    [site |-> site_info.site, region |-> site_info.region, hour |-> site_info.hour,
     temperature |-> Get(site_info, "temperature", 25),
     humidity |-> Get(site_info, "humidity", 60),
     wind_speed |-> Get(site_info, "wind_speed", 10),
     pressure |-> Get(site_info, "pressure", 1013),
     dust |-> Get(site_info, "dust", 50),
     aod |-> Get(site_info, "aod", 20)]

\* one entry of the list predict_for_dashboard returns
ResultOf(site_info, preds) ==
    [site |-> site_info.site, lat |-> site_info.lat, lon |-> site_info.lon,
     region |-> site_info.region, hour |-> site_info.hour,
     pm25 |-> Get(preds, "PM2.5", 2000),
     pm10 |-> Get(preds, "PM10", 4000),
     temperature |-> Get(site_info, "temperature", 25),
     humidity |-> Get(site_info, "humidity", 60),
     wind_speed |-> Get(site_info, "wind_speed", 10),
     dust |-> Get(site_info, "dust", 50),
     visibility |-> Get(preds, "Visibility_Est", 1500),
     flight_safety_score |-> Get(preds, "Flight_Safety_Score", 70),
     AQI |-> Get(preds, "AQI", 50),
     prediction_source |-> "ML_Model"]

\* predict_for_dashboard: a missing subscripted key raises KeyError and the
\* call returns nothing
predict_for_dashboard(sites, clock, fcols, targets, kind) ==
    IF \E i \in 1..Len(sites) : ~(SubscriptedKeys \subseteq DOMAIN sites[i])
    THEN [raised |-> "KeyError", results |-> <<>>, calls |-> <<>>]
    ELSE LET calls == [i \in 1..Len(sites) |->
                         predict_conditions(RequestOf(sites[i]), clock, fcols, targets, kind)]
         IN  [raised |-> "no",
              results |-> [i \in 1..Len(sites) |-> ResultOf(sites[i], calls[i].predictions)],
              calls |-> calls]

\* the three sites of the test command
test_sites ==
    <<[site |-> "Muscat", lat |-> 23, lon |-> 58, region |-> "Muscat", hour |-> 12],
      [site |-> "Salalah", lat |-> 17, lon |-> 54, region |-> "Dhofar", hour |-> 12],
      [site |-> "Musandam", lat |-> 26, lon |-> 56, region |-> "Musandam", hour |-> 12]>>

\* main() of ml_prediction_service: the usage check, the construction of the
\* predictor and the command.  args is sys.argv[1:], input the JSON text
\* given to the predict command.
service_main(args, input, avi, fc, clock, kind) ==
    LET loaded == load_models(avi, fc)
        ended(status, built, run) ==
            [status |-> status, built |-> built, loaded |-> loaded, run |-> run]
        nothing == [raised |-> "no", results |-> <<>>, calls |-> <<>>]
        Serve(sites) == predict_for_dashboard(sites, clock, loaded.feature_columns,
                                              loaded.models, kind)
    IN  IF Len(args) < 1 THEN ended(1, FALSE, nothing)
        ELSE IF loaded.exited THEN ended(1, FALSE, nothing)
        ELSE IF args[1] = "test" THEN ended(0, TRUE, Serve(test_sites))
        ELSE IF args[1] = "predict"
             THEN IF ~input.valid THEN ended(1, TRUE, nothing)
                  ELSE IF Serve(input.sites).raised # "no" THEN ended(1, TRUE, nothing)
                  ELSE ended(0, TRUE, Serve(input.sites))
        ELSE ended(0, TRUE, nothing)

\* site_info records of the predict command: every field, the location
\* without the weather, and site, region and hour alone
FullSite ==
    [site |-> "Muscat", lat |-> 23, lon |-> 58, region |-> "Muscat", hour |-> 6,
     temperature |-> 40, humidity |-> 20, wind_speed |-> 30, pressure |-> 990,
     dust |-> 400, aod |-> 150]

LocatedSite ==
    [site |-> UnseenCity, lat |-> 24, lon |-> 56, region |-> "Dhofar", hour |-> 18]

MinimalSite == [site |-> "Salalah", region |-> "Dhofar", hour |-> 0]

\* the JSON inputs tried: text that does not parse, and lists of site_info
SitesInputs ==
    {[valid |-> FALSE, sites |-> <<>>]}
    \cup {[valid |-> TRUE, sites |-> l] :
            l \in {<<>>, <<FullSite>>, <<LocatedSite>>, <<MinimalSite>>,
                   <<FullSite, LocatedSite>>, <<LocatedSite, MinimalSite>>}}

\* the commands tried: none, test, predict and an unknown one
Commands == {<<>>, <<"test">>, <<"predict">>, <<"status">>}

\* the training runs whose forecaster may save its models
SavedRuns ==
    {[cities |-> {}, k |-> 0],
     [cities |-> {"Muscat", "Musandam"}, k |-> 3],
     [cities |-> Sites, k |-> Len(horizons)]}

\* the store before the service starts: either artifact may be missing or
\* unreadable, the aviation one may be the dump of a training run; a
\* forecaster may have finished training and not saved yet
InitService ==
    /\ AqiIdle
    /\ BatchIdle
    /\ AlertsIdle
    /\ AviationIdle
    /\ SimpleIdle
    /\ ForecastIdle
    /\ files = ConfiguredFiles
    /\ fileLen = [s \in Sites |-> 0]
    /\ readable = [s \in Sites |-> FALSE]
    /\ descending = FALSE
    /\ featured = <<>>
    /\ df = <<>>
    /\ hidx = 0
    /\ X_aligned = <<>>
    /\ y_pm25 = <<>>
    /\ y_pm10 = <<>>
    /\ \/ /\ pc = "idle"
          /\ feature_columns = <<>>
          /\ models = NoModels
       \/ /\ pc = "trained"
          /\ \E run \in SavedRuns :
                 /\ feature_columns = TrainedFeatureColumns(run.cities)
                 /\ models = TrainedModels(run.k)
    /\ aviation_pkl \in {AbsentPkl, CorruptPkl}
                        \cup {save_models(c) : c \in {{}, Sites, Sites \cup {UnseenCity}}}
    /\ forecast_pkl \in {AbsentPkl, CorruptPkl}
    /\ argv \in Commands
    /\ sites_data \in SitesInputs
    /\ argv # <<"predict">> => sites_data = [valid |-> TRUE, sites |-> <<>>]
    /\ now \in [weekday : Weekdays, month : {7}]
    /\ dash_output \in DashOutputs
    /\ dash_pc = "idle"
    /\ dash_feature_columns = <<>>
    /\ dash_models = <<>>
    /\ request = NoRequest
    /\ feature_df = <<>>
    /\ dash_handed = <<>>
    /\ predictions = NoPredictions
    /\ forecast_models = NoModels
    /\ forecast_feature_columns = <<>>
    /\ results = <<>>
    /\ exit_status = NoInt

\* main() of forecasting_system after training: save_forecast_models
SaveForecastModels ==
    /\ pc = "trained"
    /\ forecast_pkl' = save_forecast_models(models, feature_columns)
    /\ pc' = "saved"
    /\ UNCHANGED <<featured, df, feature_columns, hidx, X_aligned, y_pm25, y_pm10, models>>
    /\ UNCHANGED <<aviation_pkl, forecast_models, forecast_feature_columns, argv,
                   sites_data, results, exit_status>>
    /\ UNCHANGED <<batchVars, alertVars, inputVars, aviationVars, simpleVars, aqiVars, inferVars>>

\* one run of ml_prediction_service
ServiceMain ==
    /\ exit_status = NoInt
    /\ \E res \in {service_main(argv, sites_data, aviation_pkl, forecast_pkl,
                                now, dash_output)} :
           /\ exit_status' = res.status
           /\ results' = res.run.results
           /\ dash_pc' = (IF res.built THEN "served" ELSE "exited")
           /\ dash_models' = res.loaded.models
           /\ dash_feature_columns' = res.loaded.feature_columns
           /\ forecast_models' = res.loaded.forecast_models
           /\ forecast_feature_columns' = res.loaded.forecast_feature_columns
           /\ IF Len(res.run.calls) = 0
              THEN UNCHANGED <<feature_df, dash_handed, predictions>>
              ELSE \E last \in {res.run.calls[Len(res.run.calls)]} :
                       /\ feature_df' = last.feature_df
                       /\ dash_handed' = last.handed
                       /\ predictions' = last.predictions
    /\ UNCHANGED <<request, now, dash_output>>
    /\ UNCHANGED <<aviation_pkl, forecast_pkl, argv, sites_data>>
    /\ UNCHANGED <<batchVars, alertVars, inputVars, aviationVars, simpleVars, aqiVars, trainVars, forecastVars>>

(***************************************************************************)
(* The scripts run as batch jobs: forecasting_system.main() and            *)
(* netcdf4_TO_CSV.process_merra2_to_csv().  A script whose entry point     *)
(* returns, or catches what was raised, ends with exit status 0.           *)
(***************************************************************************)
\* main() from the end of training on: the except clause prints the error
\* and main returns; otherwise the demonstration forecast is printed
forecasting_main(raised) ==
    [message |-> IF raised THEN "Error in forecasting system"
                 ELSE "Forecasting system ready for deployment!",
     status |-> 0]

\* a NetCDF file: it holds data variables, it opens and holds none, or
\* xr.open_dataset raises on it
Nc4Kinds == {"data", "empty", "broken"}

\* the user answers `all` to the variable prompt, so the variables of the
\* first file are the selected ones
process_merra2_to_csv(fs) ==
    LET HasData(f) == f = "data"
        all_dfs == SelectSeq(fs, HasData)
    IN  [message |->
            IF Len(fs) = 0 THEN "No NetCDF files found in ./merra2_data/ directory"
            ELSE IF fs[1] # "data" THEN "Could not read variables from NetCDF file"
            ELSE IF Len(all_dfs) = 0 THEN "No data could be processed from any files"
            ELSE "MERRA2 to CSV conversion completed successfully!",
         status |-> 0]

MaxNc4 == 1

Nc4Inputs == UNION {[1..n -> Nc4Kinds] : n \in 0..MaxNc4}

\* the source tables of a batch run: each site's file is missing, holds the
\* header alone, or is long
InitBatch ==
    /\ AqiIdle
    /\ ForecastIdle
    /\ DashIdle
    /\ ServiceIdle
    /\ AlertsIdle
    /\ AviationIdle
    /\ SimpleIdle
    /\ files = ConfiguredFiles
    /\ descending = FALSE
    /\ readable \in [Sites -> BOOLEAN]
    /\ fileLen \in [Sites -> {0, MaxLen}]
    /\ \A s \in Sites : ~readable[s] => fileLen[s] = 0
    /\ pc = "start"
    /\ featured = <<>>
    /\ df = <<>>
    /\ feature_columns = <<>>
    /\ hidx = 0
    /\ X_aligned = <<>>
    /\ y_pm25 = <<>>
    /\ y_pm10 = <<>>
    /\ models = NoModels
    /\ nc4_files \in Nc4Inputs
    /\ main_message = ""
    /\ main_status = NoInt
    /\ merra2_message = ""
    /\ merra2_status = NoInt

\* main() ends: after the demonstration forecast, or in its except clause
MainReturns ==
    /\ \/ pc = "failed"
       \/ pc = "saved" /\ outcome # "none"
    /\ main_status = NoInt
    /\ \E res \in {forecasting_main(pc = "failed" \/ outcome # "returned")} :
           /\ main_message' = res.message
           /\ main_status' = res.status
    /\ UNCHANGED <<nc4_files, merra2_message, merra2_status>>
    /\ UNCHANGED <<alertVars, serviceVars, inputVars, aviationVars, simpleVars, aqiVars, trainVars, inferVars>>

\* one run of netcdf4_TO_CSV.py
ProcessMerra2 ==
    /\ merra2_status = NoInt
    /\ \E res \in {process_merra2_to_csv(nc4_files)} :
           /\ merra2_message' = res.message
           /\ merra2_status' = res.status
    /\ UNCHANGED <<nc4_files, main_message, main_status>>
    /\ UNCHANGED <<alertVars, serviceVars, inputVars, aviationVars, simpleVars, aqiVars, trainVars, inferVars>>

(***************************************************************************)
(* Alerts.  generate_alerts of AirQualityFlightSafetyPredictor reads       *)
(* PM2.5, PM10, Flight_Safety_Score and Visibility_Est, all in hundredths  *)
(* of their unit; generate_forecast_alerts of AirQualityForecaster reads   *)
(* the dict forecast_next_48_hours returns, in ug/m3.                      *)
(***************************************************************************)
\* self.thresholds
thresholds ==
    [pm25 |-> [good |-> 1200, moderate |-> 3540, unhealthy_sensitive |-> 5540,
               unhealthy |-> 15040, very_unhealthy |-> 25040],
     pm10 |-> [good |-> 5400, moderate |-> 15400, unhealthy_sensitive |-> 25400,
               unhealthy |-> 35400, very_unhealthy |-> 42400],
     visibility |-> [poor |-> 500, reduced |-> 1000, good |-> 2500],
     flight_safety |-> [high_risk |-> 30, moderate_risk |-> 60, low_risk |-> 100]]

\* one dict of the list: the value is the one the message quotes
Alert(type, level, message, value, color) ==
    [type |-> type, level |-> level, message |-> message, value |-> value, color |-> color]

AirQualityAlerts(p) ==
    IF p["PM2.5"] > thresholds.pm25.unhealthy
    THEN <<Alert("AIR_QUALITY", "HIGH", "High PM2.5 levels", p["PM2.5"], "red")>>
    ELSE IF p["PM2.5"] > thresholds.pm25.moderate
    THEN <<Alert("AIR_QUALITY", "MODERATE", "Moderate PM2.5 levels", p["PM2.5"], "orange")>>
    ELSE <<>>

FlightSafetyAlerts(p) ==
    IF p["Flight_Safety_Score"] < thresholds.flight_safety.high_risk
    THEN <<Alert("FLIGHT_SAFETY", "HIGH", "Poor flight conditions",
                 p["Flight_Safety_Score"], "red")>>
    ELSE IF p["Flight_Safety_Score"] < thresholds.flight_safety.moderate_risk
    THEN <<Alert("FLIGHT_SAFETY", "MODERATE", "Moderate flight conditions",
                 p["Flight_Safety_Score"], "orange")>>
    ELSE <<>>

VisibilityAlerts(p) ==
    IF p["Visibility_Est"] < thresholds.visibility.poor
    THEN <<Alert("VISIBILITY", "HIGH", "Poor visibility", p["Visibility_Est"], "red")>>
    ELSE <<>>

\* the three blocks in another order
generate_alerts_visibility_first(p) ==
    VisibilityAlerts(p) \o AirQualityAlerts(p) \o FlightSafetyAlerts(p)

generate_alerts(p) ==
    AirQualityAlerts(p) \o FlightSafetyAlerts(p) \o VisibilityAlerts(p)

\* a > n for a float a and an integer n
Exceeds(a, n) == a.num > n * a.den

\* the second argument whatever the first
MaxRatSecond(a, b) == b

\* max(a, b) of two floats: b only when it is the greater
MaxRat(a, b) ==
    LET fa == a.num \div a.den
        fb == b.num \div b.den
    IN  IF fa # fb THEN (IF fb > fa THEN b ELSE a)
        ELSE IF (b.num % b.den) * a.den > (a.num % a.den) * b.den THEN b ELSE a

\* the alerts of one horizon of the dict
HorizonAlerts(horizon, pred) ==
    LET aqi_pm25 == ForecasterCalculateAqi(100 * pred.pm25, "pm25")
        aqi_pm10 == ForecasterCalculateAqi(100 * pred.pm10, "pm10")
        overall_aqi == MaxRat(aqi_pm25, aqi_pm10)
        alert(level, message) ==
            [horizon |-> horizon, level |-> level, message |-> message,
             timestamp |-> pred.lead, aqi |-> overall_aqi]
    IN  IF Exceeds(overall_aqi, 150)
        THEN <<alert("HIGH", "Unhealthy air quality predicted")>>
        ELSE IF Exceeds(overall_aqi, 100)
        THEN <<alert("MODERATE", "Moderate air quality predicted")>>
        ELSE <<>>

\* the dict is walked in insertion order, that of horizons
generate_forecast_alerts(fc) ==
    LET Forecasted(h) == h \in DOMAIN fc
        keys == SelectSeq(horizons, Forecasted)
    IN  Concat([i \in 1..Len(keys) |-> HorizonAlerts(keys[i], fc[keys[i]])])

\* the predictions tried: each quantity below, at and above its thresholds
AviationPM25 == {2000, 3540, 10000, 15040, 20000}

AviationPM10 == {4000, 20000, 40000}

AviationScores == {20, 30, 50, 60, 80}

AviationVisibility == {300, 500, 1500}

AviationPredictions ==
    {("PM2.5" :> a) @@ ("PM10" :> b) @@ ("Flight_Safety_Score" :> c)
        @@ ("Visibility_Est" :> d) :
        a \in AviationPM25, b \in AviationPM10, c \in AviationScores,
        d \in AviationVisibility}

\* forecast values in ug/m3: PM2.5 with AQI 42, 112 and 250, PM10 with AQI
\* 46, 100, 150 and 173
ForecastPM25 == {10, 40, 200}

ForecastPM10 == {50, 154, 254, 300}

ForecastEntry(h, a, b) == [pm25 |-> a, pm10 |-> b, lead |-> h]

\* the dicts tried: none, one horizon, and two horizons of which the later
\* one forecasts PM2.5 200 with PM10 50
ForecastDicts ==
    {NoForecasts}
    \cup {(1 :> ForecastEntry(1, a, b)) : a \in ForecastPM25, b \in ForecastPM10}
    \cup {(1 :> ForecastEntry(1, a, b)) @@ (48 :> ForecastEntry(48, 200, 50)) :
            a \in ForecastPM25, b \in ForecastPM10}

InitAlerts ==
    /\ AqiIdle
    /\ TrainIdle
    /\ DashIdle
    /\ ServiceIdle
    /\ BatchIdle
    /\ AviationIdle
    /\ SimpleIdle
    /\ aviation_predictions \in AviationPredictions
    /\ alerts = <<>>
    /\ forecast_alerts = <<>>
    /\ forecasts \in ForecastDicts
    /\ current_conditions = NoConditions
    /\ model_output = [pm25 |-> 0, pm10 |-> 0]
    /\ X_current = <<>>
    /\ handed = <<>>
    /\ outcome = "returned"
    /\ alert_pc = {}

\* predictor.generate_alerts(predictions)
GenerateAlerts ==
    /\ "generate_alerts" \notin alert_pc
    /\ alerts' = generate_alerts(aviation_predictions)
    /\ alert_pc' = alert_pc \cup {"generate_alerts"}
    /\ UNCHANGED <<aviation_predictions, forecast_alerts>>
    /\ UNCHANGED <<batchVars, serviceVars, inputVars, aviationVars, simpleVars, aqiVars, trainVars, inferVars>>

\* forecaster.generate_forecast_alerts(forecasts)
GenerateForecastAlerts ==
    /\ "generate_forecast_alerts" \notin alert_pc
    /\ outcome = "returned"
    /\ forecast_alerts' = generate_forecast_alerts(forecasts)
    /\ alert_pc' = alert_pc \cup {"generate_forecast_alerts"}
    /\ UNCHANGED <<aviation_predictions, alerts>>
    /\ UNCHANGED <<batchVars, serviceVars, inputVars, aviationVars, simpleVars, aqiVars, trainVars, inferVars>>

\* the sample record of main(), after main() has added the training
\* columns it lacks
SampleConditions == Conditions(TRUE, "Muscat", AllBase)

\* main() after save_forecast_models: the demonstration forecast and its
\* alerts, whatever the fitted models answer
MainForecast ==
    /\ pc = "saved"
    /\ outcome = "none"
    /\ \E out \in [pm25 : PredValues, pm10 : PredValues] :
       \E res \in {forecast_next_48_hours(SampleConditions, feature_columns, models, out)} :
           /\ current_conditions' = SampleConditions
           /\ model_output' = out
           /\ outcome' = (IF res.raised = "no" THEN "returned" ELSE res.raised)
           /\ X_current' = res.X
           /\ handed' = res.handed
           /\ forecasts' = res.forecasts
           /\ forecast_alerts' = generate_forecast_alerts(res.forecasts)
    /\ alert_pc' = alert_pc \cup {"generate_forecast_alerts"}
    /\ UNCHANGED <<aviation_predictions, alerts>>
    /\ UNCHANGED <<batchVars, serviceVars, inputVars, aviationVars, simpleVars, aqiVars, trainVars, dashVars>>

(***************************************************************************)
(* AirQualityFlightSafetyPredictor.load_and_prepare_data: the tables of    *)
(* ./data/*.csv are concatenated in the order glob lists them and the      *)
(* features are computed on the whole table.                               *)
(***************************************************************************)
\* series.rolling(w).mean(): NaN until w rows are there
RollingMeanFull(vals, w) ==
    LET v == Explicit(vals)
    IN  [i \in 1..Len(v) |-> IF i < w THEN NoRat ELSE Rat(SumRange(v, i - w + 1, i), w)]

PressureWindow == 24

\* abs(pressure - pressure.rolling(24).mean()), NaN where the mean is
PressureStability(pressure, mean) ==
    [i \in 1..Len(pressure) |->
        IF mean[i] = NoRat THEN NoRat
        ELSE Rat(Abs(PressureWindow * pressure[i] - mean[i].num), PressureWindow)]

\* the rows of self.data with the one feature that looks at other rows
load_and_prepare_data(fs, len) ==
    LET df_list == DfList(fs, len, FALSE)
        all == Concat(df_list)
        pressure == Column(all, "Pressure")
        stability == PressureStability(pressure, RollingMeanFull(pressure, PressureWindow))
        rows == [i \in 1..Len(all) |->
                    [City |-> all[i].City, DateTime |-> all[i].DateTime, raw |-> all[i].raw,
                     Pressure_Stability |-> stability[i]]]
        Complete(r) == r.Pressure_Stability # NoRat
    IN  IF df_list = <<>> THEN [raised |-> "ValueError", data |-> <<>>]
        ELSE [raised |-> "no", data |-> SelectSeq(rows, Complete)]

\* min(max(x, lo), hi)
Clamp(x, lo, hi) == IF x < lo THEN lo ELSE IF x > hi THEN hi ELSE x

\* calculate_visibility: 50 / (1 + pm25/50 + pm10/100 + dust/200), clipped
\* to 0.1 .. 50
calculate_visibility(pm25, pm10, dust) ==
    LET q == Rat(50 * 200, 200 + 4 * pm25 + 2 * pm10 + dust)
    IN  IF q.num > 50 * q.den THEN Rat(50, 1)
        ELSE IF 10 * q.num < q.den THEN Rat(1, 10)
        ELSE q

\* calculate_turbulence_risk: 0.4 clip(wind/20) + 0.4 clip(dust/500)
\* + 0.2 clip(temperature/50)
calculate_turbulence_risk(wind_speed, dust, temperature) ==
    Rat(50 * Clamp(wind_speed, 0, 20) + 2 * Clamp(dust, 0, 500)
          + 10 * Clamp(temperature, 0, 50), 2500)

\* calculate_air_density: pressure * 100 / (287.05 * temp_k)
\* * (1 - humidity / 100 * 0.02)
calculate_air_density(temp_c, pressure_hpa, humidity_pct) ==
    Rat(pressure_hpa * 200 * (5000 - humidity_pct), 28705 * (100 * temp_c + 27315))

\* the derived features of one row of the training table; the row's
\* Pressure_Stability comes from the rows before it
training_features(raw, stability) ==
    <<Cell(Feature("Visibility_Est"), calculate_visibility(raw.pm25, raw.pm10, raw.dust)),
      Cell(Feature("Turbulence_Risk"),
           calculate_turbulence_risk(raw.wind_speed, raw.dust, raw.temperature)),
      Cell(Feature("Air_Density"),
           calculate_air_density(raw.temperature, raw.pressure, raw.humidity)),
      Cell(Feature("Dust_Wind_Factor"), Rat(raw.dust * raw.wind_speed, 100)),
      Cell(Feature("Pressure_Stability"), stability),
      Cell(Feature("Temp_Humidity_Index"), Rat(raw.temperature * raw.humidity, 100))>>

\* the tables of ./data: any listing order, each site's file there or not,
\* with the header alone, one window of rows, or a long series
InitAviation ==
    /\ AqiIdle
    /\ ForecastIdle
    /\ DashIdle
    /\ ServiceIdle
    /\ BatchIdle
    /\ AlertsIdle
    /\ SimpleIdle
    /\ files \in Permutations3
    /\ descending = FALSE
    /\ readable \in [Sites -> BOOLEAN]
    /\ fileLen \in [Sites -> SiteLens]
    /\ \A s \in Sites : ~readable[s] => fileLen[s] = 0
    /\ pc = "idle"
    /\ featured = <<>>
    /\ df = <<>>
    /\ feature_columns = <<>>
    /\ hidx = 0
    /\ X_aligned = <<>>
    /\ y_pm25 = <<>>
    /\ y_pm10 = <<>>
    /\ models = NoModels
    /\ aviation_pc = "start"
    /\ aviation_data = <<>>

LoadAndPrepareData ==
    /\ aviation_pc = "start"
    /\ \E res \in {load_and_prepare_data(files, fileLen)} :
           /\ aviation_pc' = (IF res.raised = "no" THEN "prepared" ELSE "failed")
           /\ aviation_data' = res.data
    /\ UNCHANGED <<batchVars, alertVars, serviceVars, inputVars, simpleVars, aqiVars,
                   trainVars, inferVars>>

(***************************************************************************)
(* Specification of the AQI functions: the argument is any concentration   *)
(* of the grid, each implementation is called once.                        *)
(***************************************************************************)
InitAqi ==
    /\ TrainIdle
    /\ ForecastIdle
    /\ DashIdle
    /\ ServiceIdle
    /\ BatchIdle
    /\ AlertsIdle
    /\ AviationIdle
    /\ SimpleIdle
    /\ concentration \in (0 - MinConc)..MaxConc
    /\ pollutant \in Pollutants
    /\ aqi_forecast = NoRat
    /\ aqi_dashboard = NoInt
    /\ aqi_simple = NoInt
    /\ aqi_training = NoInt
    /\ called = {}

CallForecasterAqi ==
    /\ called = {}
    /\ aqi_forecast' = ForecasterCalculateAqi(concentration, pollutant)
    /\ called' = called \cup {"forecaster"}
    /\ UNCHANGED <<concentration, pollutant, aqi_dashboard, aqi_simple, aqi_training>>
    /\ UNCHANGED <<batchVars, alertVars, serviceVars, inputVars, aviationVars, simpleVars, trainVars, inferVars>>

CallDashboardAqi ==
    /\ called = {"forecaster"}
    /\ aqi_dashboard' = DashboardCalculateAqi(concentration, pollutant)
    /\ called' = called \cup {"dashboard"}
    /\ UNCHANGED <<concentration, pollutant, aqi_forecast, aqi_simple, aqi_training>>
    /\ UNCHANGED <<batchVars, alertVars, serviceVars, inputVars, aviationVars, simpleVars, trainVars, inferVars>>

CallSimpleAqi ==
    /\ called = {"forecaster", "dashboard"}
    /\ aqi_simple' = SimpleCalculateAqi(concentration, pollutant)
    /\ called' = called \cup {"simple"}
    /\ UNCHANGED <<concentration, pollutant, aqi_forecast, aqi_dashboard, aqi_training>>
    /\ UNCHANGED <<batchVars, alertVars, serviceVars, inputVars, aviationVars, simpleVars, trainVars, inferVars>>

CallTrainingAqi ==
    /\ called = {"forecaster", "dashboard", "simple"}
    /\ aqi_training' = TrainingCalculateAqi(concentration, pollutant)
    /\ called' = called \cup {"training"}
    /\ UNCHANGED <<concentration, pollutant, aqi_forecast, aqi_dashboard, aqi_simple>>
    /\ UNCHANGED <<batchVars, alertVars, serviceVars, inputVars, aviationVars, simpleVars, trainVars, inferVars>>

NextAqi ==
    \/ CallForecasterAqi
    \/ CallDashboardAqi
    \/ CallSimpleAqi
    \/ CallTrainingAqi

SpecAqi == InitAqi /\ [][NextAqi]_vars

\* inference: a trained forecaster is asked for a forecast, or a loaded
\* dashboard predictor for current conditions
InitInfer ==
    /\ AqiIdle
    /\ ServiceIdle
    /\ BatchIdle
    /\ AlertsIdle
    /\ AviationIdle
    /\ SimpleIdle
    /\ \/ InitForecast /\ DashIdle
       \/ TrainIdle /\ ForecastIdle /\ InitDashboard

NextInfer ==
    \/ Forecast
    \/ PredictConditions

SpecInfer == InitInfer /\ [][NextInfer]_vars

\* the artifact store and the prediction service
NextService ==
    \/ SaveForecastModels
    \/ ServiceMain

SpecService == InitService /\ [][NextService]_vars

NextBatch ==
    \/ PrepareFeatures
    \/ TrainBegin
    \/ TrainHorizon
    \/ TrainEnd
    \/ SaveForecastModels
    \/ MainForecast
    \/ MainReturns
    \/ ProcessMerra2

SpecBatch == InitBatch /\ [][NextBatch]_vars

NextAlerts ==
    \/ GenerateAlerts
    \/ GenerateForecastAlerts

SpecAlerts == InitAlerts /\ [][NextAlerts]_vars

NextAviation == LoadAndPrepareData

SpecAviation == InitAviation /\ [][NextAviation]_vars

(***************************************************************************)
(* simple_ml_predictor.ml_predict_conditions.  Concentrations and the      *)
(* visibility are in hundredths, the factors and the flight safety score   *)
(* in thousandths; the day of the year enters through seasonal_factor and  *)
(* the three draws of np.random.normal through noise.                      *)
(***************************************************************************)

\* np.sin(k * np.pi / 12) in thousandths
Sin12(k) ==
    LET quarter == <<0, 259, 500, 707, 866, 966, 1000>>
        m == k % 24
        up == IF m % 12 <= 6 THEN quarter[(m % 12) + 1] ELSE quarter[(12 - (m % 12)) + 1]
    IN  IF m < 12 THEN up ELSE 0 - up

\* max(lo, x) without its effect
AtLeastNothing(lo, x) == x

\* max(lo, x)
AtLeast(lo, x) == IF x < lo THEN lo ELSE x

\* min(hi, x)
AtMost(hi, x) == IF x > hi THEN hi ELSE x

\* x * f for a factor f in thousandths
Scale(x, f) == (x * f) \div 1000

location_factors ==
    [Muscat   |-> [pm25_mult |-> 1200, pm10_mult |-> 1300, base_dust |-> 60],
     Dhofar   |-> [pm25_mult |-> 800, pm10_mult |-> 900, base_dust |-> 35],
     Salalah  |-> [pm25_mult |-> 800, pm10_mult |-> 900, base_dust |-> 35],
     Musandam |-> [pm25_mult |-> 600, pm10_mult |-> 700, base_dust |-> 25]]

\* location_factors.get(region, location_factors.get(site, Muscat))
loc_factor(site, region) ==
    IF region \in DOMAIN location_factors THEN location_factors[region]
    ELSE IF site \in DOMAIN location_factors THEN location_factors[site]
    ELSE location_factors["Muscat"]

hour_factor(hour) == 1000 + (4 * Sin12(hour - 8)) \div 10

temp_factor(temperature) == 1000 + AtLeast(0, (temperature - 30) * 20)

humidity_factor(humidity) == 1000 - AtMost(300, (humidity * 10) \div 3)

wind_factor(wind_speed) == AtLeast(300, 1000 - 40 * wind_speed)

pressure_factor(pressure) == 1000 + (pressure - 1013)

\* round(x, 1) of a value in hundredths
RoundTenths(x) == ((x + 5) \div 10) * 10

ml_predict_conditions(req, seasonal, draw) ==
    LET loc == loc_factor(req.site, req.region)
        product == Scale(Scale(Scale(Scale(Scale(Scale(Scale(
                       req.base_pm25 * 100, loc.pm25_mult), hour_factor(req.hour)),
                       seasonal), temp_factor(req.temperature)),
                       humidity_factor(req.humidity)), wind_factor(req.wind_speed)),
                       pressure_factor(req.pressure))
        predicted_pm25 == AtLeast(100, product + draw.pm25)
        predicted_pm10 == AtLeast(200, Scale(predicted_pm25, 2200) + draw.pm10)
        enhanced_dust ==
            AtLeast(1000, Scale(Scale(Scale(loc.base_dust * 100, wind_factor(req.wind_speed)),
                                      temp_factor(req.temperature)),
                                1000 + (3 * Sin12(req.hour)) \div 10) + draw.dust)
        visibility ==
            AtLeast(50, AtMost(5000, 100000000 \div
                (20000 + 4 * predicted_pm25 + 2 * predicted_pm10 + enhanced_dust)))
        visibility_score == AtMost(1000, (visibility * 2) \div 5)
        air_quality_score ==
            AtLeast(0, (15000 - MaxOf(predicted_pm25 * 2, predicted_pm10)) \div 15)
        wind_score == AtLeast(0, AtMost(1000, (25 - req.wind_speed) * 40))
        dust_score == AtLeast(0, (20000 - enhanced_dust) \div 20)
        flight_safety_score ==
            AtLeast(0, AtMost(1000, (3 * visibility_score + 4 * air_quality_score
                                       + 2 * wind_score + dust_score) \div 10))
        aqi == MaxOf(SimpleCalculateAqi(predicted_pm25, "pm25"),
                     SimpleCalculateAqi(predicted_pm10, "pm10"))
    IN  [pm25 |-> RoundTenths(predicted_pm25),
         pm10 |-> RoundTenths(predicted_pm10),
         dust |-> RoundTenths(enhanced_dust),
         visibility |-> RoundTenths(visibility),
         flight_safety_score |-> flight_safety_score,
         AQI |-> aqi,
         prediction_source |-> "Enhanced_ML_Model"]

\* the calls: a region of the table, a region outside it with a site of the
\* table or without, mild and extreme weather
SimpleRequests ==
    [site : {"Salalah", "Sohar"}, region : {"Muscat", "Musandam", "Batinah"},
     hour : {2, 9, 14}, temperature : {25, 50}, humidity : {60},
     wind_speed : {0, 10, 30}, pressure : {0, 1013}, base_pm25 : {0, 20, 2000}]

\* 1 + 0.2 sin(...) at its lowest and highest
SeasonalFactors == {800, 1200}

\* three standard deviations either side of each draw
Noises == [pm25 : {-600, 0, 600}, pm10 : {-1500, 0, 1500}, dust : {-2400, 0, 2400}]

InitSimple ==
    /\ AqiIdle
    /\ TrainIdle
    /\ ForecastIdle
    /\ DashIdle
    /\ ServiceIdle
    /\ BatchIdle
    /\ AlertsIdle
    /\ AviationIdle
    /\ simple_request \in SimpleRequests
    /\ seasonal_factor \in SeasonalFactors
    /\ noise \in Noises
    /\ simple_prediction = [k \in {} |-> 0]

MlPredictConditions ==
    /\ DOMAIN simple_prediction = {}
    /\ simple_request # NoSimpleRequest
    /\ simple_prediction' = ml_predict_conditions(simple_request, seasonal_factor, noise)
    /\ UNCHANGED <<simple_request, seasonal_factor, noise>>
    /\ UNCHANGED <<aqiVars, inputVars, trainVars, inferVars, serviceVars, batchVars,
                   alertVars, aviationVars>>

NextSimple == MlPredictConditions

SpecSimple == InitSimple /\ [][NextSimple]_vars

(***************************************************************************)
(* Properties of the training pipeline.                                    *)
(***************************************************************************)
Max0(x) == IF x > 0 THEN x ELSE 0

\* rows of a site in the prepared table
Retained(site) == Cardinality({i \in 1..Len(df) : df[i].City = site})

SiteSeq == <<"Musandam", "Muscat", "Salalah">>

RECURSIVE SumOver(_, _)
SumOver(f, i) == IF i > Len(f) THEN 0 ELSE f[i] + SumOver(f, i + 1)

HorizonRan == pc \in {"loop", "trained"} /\ hidx >= 1

\* C1: every row kept in a horizon's training set is paired with the PM2.5
\* and PM10 values h rows later in the series of the row's own site.
C1_LabelsFromSameSite ==
    HorizonRan =>
        \A i \in 1..Len(X_aligned) :
            \E h \in {horizons[hidx]} : \E r \in {X_aligned[i]} :
                /\ r.DateTime + h <= fileLen[r.City]
                /\ y_pm25[i] = Measurement("PM2.5", r.City, r.DateTime + h)
                /\ y_pm10[i] = Measurement("PM10", r.City, r.DateTime + h)

\* C2: the training set of horizon h has as many rows as the sum over the
\* sites of (rows of the site that survive the lag warm-up, minus h).
C2_RowCountPerSite ==
    HorizonRan =>
        Len(X_aligned) =
            SumOver([i \in 1..Len(SiteSeq) |->
                        Max0(Retained(SiteSeq[i]) - horizons[hidx])], 1)

LagRolling(r) ==
    [City |-> r.City, DateTime |-> r.DateTime, lag |-> r.lag, rolling |-> r.rolling]

\* C3: the lag and rolling values of every row are those obtained when the
\* source tables are supplied in the configured order, whatever the order
\* they were supplied in.
C3_SiteOrderIrrelevant ==
    pc = "featured" =>
        \A ref \in {prepare_city_features(ConfiguredFiles, fileLen, descending).df} :
            /\ Len(ref) = Len(featured)
            /\ {LagRolling(ref[j]) : j \in 1..Len(ref)}
                 = {LagRolling(featured[i]) : i \in 1..Len(featured)}

C3_Witness ==
    /\ pc = "featured"
    /\ files # ConfiguredFiles
    /\ Cardinality({featured[i].City : i \in 1..Len(featured)}) = 3
    /\ \E i \in 1..Len(featured) : featured[i].lag["PM2.5"][1] # NaN

\* C4: a lag feature of offset k is the measurement k rows earlier in the
\* same site's time-sorted series and is null in the site's first k rows; a
\* site with n complete rows contributes its last max(0, n - 24) rows to the
\* prepared table.
C4_LagAndWarmup ==
    /\ \A i \in 1..Len(featured) : \E r \in {featured[i]} :
          \A c \in Range(lag_columns) : \A k \in Range(lag_hours) :
              r.lag[c][k] = IF r.DateTime - k >= 1
                            THEN Measurement(c, r.City, r.DateTime - k)
                            ELSE NaN
    /\ pc \in {"loop", "trained"} =>
          \A s \in Sites :
              /\ Retained(s) = (IF readable[s] THEN Max0(fileLen[s] - LagMax) ELSE 0)
              /\ {df[i].DateTime : i \in {j \in 1..Len(df) : df[j].City = s}}
                   = (LagMax + 1)..fileLen[s]

C4_Witness ==
    /\ pc = "loop"
    /\ \E s \in Sites : fileLen[s] = MaxLen /\ Retained(s) = MaxLen - LagMax
    /\ \E s \in Sites : readable[s] /\ fileLen[s] = LagMax /\ Retained(s) = 0


(***************************************************************************)
(* Properties of calculate_aqi.                                            *)
(***************************************************************************)
InBracket(bp, c) == bp[1] <= c /\ c <= bp[2]

\* C5: for a concentration inside a bracket, the forecaster's calculate_aqi
\* returns (aqi_high-aqi_low)/(bp_high-bp_low)*(c-bp_low)+aqi_low of the
\* first matching bracket, a value between that bracket's aqi_low and
\* aqi_high.
C5_InterpolatesFirstBracket ==
    "forecaster" \in called =>
        \A i \in 1..Len(breakpoints(pollutant)) :
            \E bp \in {breakpoints(pollutant)[i]} :
                (/\ InBracket(bp, concentration)
                 /\ \A j \in 1..(i - 1) : ~InBracket(breakpoints(pollutant)[j], concentration))
                =>
                (/\ aqi_forecast.den = bp[2] - bp[1]
                 /\ aqi_forecast.num
                      = (bp[4] - bp[3]) * (concentration - bp[1]) + bp[3] * (bp[2] - bp[1])
                 /\ bp[3] * aqi_forecast.den <= aqi_forecast.num
                 /\ aqi_forecast.num <= bp[4] * aqi_forecast.den)

C5_Witness ==
    /\ "forecaster" \in called
    /\ pollutant = "pm25"
    /\ concentration = 2000
    /\ 51 * aqi_forecast.den < aqi_forecast.num
    /\ aqi_forecast.num < 100 * aqi_forecast.den

LastHigh(p) == breakpoints(p)[Len(breakpoints(p))][2]

\* C6: for a concentration above the last bracket's bp_high, every
\* calculate_aqi implementation returns 500.
C6_CeilingAboveTable ==
    concentration > LastHigh(pollutant) =>
        /\ "forecaster" \in called => aqi_forecast = Rat(500, 1)
        /\ "dashboard" \in called => aqi_dashboard = 500
        /\ "simple" \in called => aqi_simple = 500
        /\ "training" \in called => aqi_training = 500

C6_Witness ==
    /\ called = {"forecaster", "dashboard", "simple", "training"}
    /\ pollutant = "pm10"
    /\ concentration = LastHigh("pm10") + 1
    /\ aqi_training = 500

\* equality of two non-negative rationals, by whole and fractional part
RatEq(p, q) ==
    /\ p.num \div p.den = q.num \div q.den
    /\ (p.num % p.den) * q.den = (q.num % q.den) * p.den

AlignedRows(h) == Max0(Len(df) - h)

HasModels(h) ==
    /\ ModelKey("pm25", h) \in DOMAIN models
    /\ ModelKey("pm10", h) \in DOMAIN models

LacksModels(h) ==
    /\ ModelKey("pm25", h) \notin DOMAIN models
    /\ ModelKey("pm10", h) \notin DOMAIN models

\* C12: a horizon whose aligned training set has fewer than 100 rows is
\* skipped without a model and without ending the run; every horizon with
\* at least 100 aligned rows has its two models stored, whatever was skipped
\* before it, and the loop reaches the last horizon.
C12_ShortHorizonSkipped ==
    /\ pc \in {"loop", "trained"} =>
           /\ hidx > 0 => Len(X_aligned) = AlignedRows(horizons[hidx])
           /\ \A i \in 1..hidx :
                  IF AlignedRows(horizons[i]) < 100
                  THEN LacksModels(horizons[i])
                  ELSE HasModels(horizons[i])
    /\ pc = "trained" => hidx = Len(horizons)

\* a finished run that stored the models of one horizon and skipped another
C12_Witness ==
    /\ pc = "trained"
    /\ \E i, j \in 1..Len(horizons) :
           /\ AlignedRows(horizons[i]) >= 100 /\ HasModels(horizons[i])
           /\ AlignedRows(horizons[j]) < 100 /\ LacksModels(horizons[j])

\* rows of a site in the table prepare_forecast_data has put together
RowsRead(site) == Cardinality({i \in 1..Len(featured) : featured[i].City = site})

\* C15: prepare_forecast_data passes over each source file that cannot be
\* read and goes on with the others; it raises exactly when none of the
\* configured files could be read.
C15_RaisesIffNothingRead ==
    /\ pc \in {"featured", "failed", "loop", "trained"} =>
           (pc = "failed" <=> \A s \in Sites : ~readable[s])
    /\ pc = "featured" =>
           \A s \in Sites : RowsRead(s) = (IF readable[s] THEN fileLen[s] ELSE 0)

\* C24: in every horizon of train_forecast_models the feature table and
\* the two label vectors have the same length, and label i is the target
\* shifted onto the row that is row i of the feature table: the value h
\* rows further on in the prepared table.
C24_FeaturesAndLabelsAligned ==
    HorizonRan =>
        \E h \in {horizons[hidx]} :
            /\ Len(y_pm25) = Len(X_aligned)
            /\ Len(y_pm10) = Len(X_aligned)
            /\ \A i \in 1..Len(X_aligned) :
                   /\ X_aligned[i] = df[i]
                   /\ i + h <= Len(df)
                   /\ y_pm25[i] = df[i + h].raw["PM2.5"]
                   /\ y_pm10[i] = df[i + h].raw["PM10"]

\* a horizon that was fitted on the rows of two sites
C24_Witness ==
    /\ HorizonRan
    /\ Len(X_aligned) >= MinTrainRows
    /\ HasModels(horizons[hidx])
    /\ X_aligned[1].City # X_aligned[Len(X_aligned)].City

ModelKeys == {ModelKey(t, h) : t \in {"pm25", "pm10"}, h \in {1, 6, 12, 24, 48}}

\* C29: after train_forecast_models on a fresh forecaster the registry
\* holds only keys pm25_<h>h and pm10_<h>h for h in 1, 6, 12, 24, 48, the
\* PM2.5 model of a horizon is there exactly when its PM10 model is, and
\* forecast_next_48_hours returns an entry for a horizon exactly when both
\* models of the horizon are there.
C29_RegistryAndForecastKeys ==
    /\ DOMAIN models \subseteq ModelKeys
    /\ \A h \in Range(horizons) :
           ModelKey("pm25", h) \in DOMAIN models <=> ModelKey("pm10", h) \in DOMAIN models
    /\ outcome = "returned" =>
           \A h \in Range(horizons) \cup DOMAIN forecasts :
               h \in DOMAIN forecasts <=> HasModels(h)

\* a trained forecaster that forecast some horizons and has no model of
\* another
C29_Witness ==
    /\ pc = "saved"
    /\ outcome = "returned"
    /\ 1 \in DOMAIN forecasts
    /\ 48 \notin DOMAIN forecasts
    /\ HasModels(1)
    /\ LacksModels(48)

(***************************************************************************)
(* Properties of inference.                                                *)
(***************************************************************************)
\* the columns a record gives forecast_next_48_hours: its numeric columns
\* and the indicator of its site, Muscat when it names none
InputColumns(cc) ==
    DOMAIN cc.values \cup {Col("City", IF cc.has_city THEN cc.City ELSE "Muscat", 0)}

InputValue(cc, c) == IF IsCityCol(c) THEN 1 ELSE cc.values[c]

\* the frame has exactly the columns cols in that order, carries the input's
\* value where the input has the column and 0 elsewhere
AlignedForecastFrame(frame, cols, cc) ==
    /\ ColumnsOf(frame) = cols
    /\ \A i \in 1..Len(frame) :
           frame[i].val = (IF frame[i].col \in InputColumns(cc)
                           THEN InputValue(cc, frame[i].col) ELSE 0)

AlignedDashboardFrame(frame, cols, input) ==
    /\ ColumnsOf(frame) = cols
    /\ \A i \in 1..Len(frame) :
           frame[i].val = (IF HasColumn(input, frame[i].col)
                           THEN ValueOf(input, frame[i].col) ELSE Rat(0, 1))

RawOnlyRecord ==
    /\ current_conditions.has_city
    /\ DOMAIN current_conditions.values = RawColumns

HorizonsWithModels ==
    {h \in Range(horizons) : /\ ModelKey("pm25", h) \in DOMAIN models
                             /\ ModelKey("pm10", h) \in DOMAIN models}

\* C9: a trained forecaster given a record of raw measurements and site
\* only returns without raising, with every missing training column
\* zero-filled and non-negative pm25 and pm10 for every horizon that has
\* models.
C9_RawRecordForecasts ==
    (pc = "trained" /\ RawOnlyRecord /\ outcome # "none") =>
        /\ outcome = "returned"
        /\ AlignedForecastFrame(X_current, feature_columns, current_conditions)
        /\ DOMAIN forecasts = HorizonsWithModels
        /\ \A h \in DOMAIN forecasts : forecasts[h].pm25 >= 0 /\ forecasts[h].pm10 >= 0

\* the record names a site that has no indicator among feature_columns
UnseenSiteRecord ==
    /\ current_conditions.has_city
    /\ Col("City", current_conditions.City, 0) \notin Range(feature_columns)

\* neither the site nor the region of the request is a city of the pickle
UnseenSiteRequest ==
    /\ Col("City", request.site, 0) \notin Range(dash_feature_columns)
    /\ Col("City", request.region, 0) \notin Range(dash_feature_columns)

AllIndicatorsZero(frame, zero) ==
    \A i \in 1..Len(frame) : IsCityCol(frame[i].col) => frame[i].val = zero

\* C10: for a record whose site was not seen in training the feature vector
\* is built without raising, every City_ indicator of the training columns
\* is 0 and no column of the unseen site reaches the model.
C10_UnseenSiteAllZero ==
    /\ (pc = "trained" /\ UnseenSiteRecord /\ outcome # "none") =>
           /\ outcome = "returned"
           /\ ColumnsOf(X_current) = feature_columns
           /\ AllIndicatorsZero(X_current, 0)
    /\ (dash_pc = "predicted" /\ UnseenSiteRequest) =>
           /\ ColumnsOf(feature_df) = dash_feature_columns
           /\ AllIndicatorsZero(feature_df, Rat(0, 1))

\* C16: a batch entry point that finds no usable input (main() of
\* forecasting_system with no readable source file, process_merra2_to_csv
\* with no .nc4 file) prints a failure message and ends with a non-zero
\* exit status.
C16_NoInputIsFailure ==
    /\ (main_status # NoInt /\ \A s \in Sites : ~readable[s]) =>
           /\ main_message = "Error in forecasting system"
           /\ main_status > 0
    /\ (merra2_status # NoInt /\ nc4_files = <<>>) =>
           /\ merra2_message = "No NetCDF files found in ./merra2_data/ directory"
           /\ merra2_status > 0

\* the predict command was given a list of records and the predictor was built
PredictServed ==
    /\ exit_status # NoInt
    /\ argv = <<"predict">>
    /\ sites_data.valid
    /\ dash_pc = "served"

\* C17: predict_for_dashboard serves, without an error, every request
\* record that carries site, region and hour: lat, lon and the weather
\* fields may be absent, and an absent weather field takes its default
\* (temperature 25, humidity 60, wind_speed 10, dust 50).
C17_OptionalFieldsDefaulted ==
    (PredictServed /\ \A i \in 1..Len(sites_data.sites) :
                         {"site", "region", "hour"} \subseteq DOMAIN sites_data.sites[i])
    => /\ exit_status = 0
       /\ Len(results) = Len(sites_data.sites)
       /\ \A i \in 1..Len(results) :
              /\ results[i].site = sites_data.sites[i].site
              /\ results[i].temperature = Get(sites_data.sites[i], "temperature", 25)
              /\ results[i].humidity = Get(sites_data.sites[i], "humidity", 60)
              /\ results[i].wind_speed = Get(sites_data.sites[i], "wind_speed", 10)
              /\ results[i].dust = Get(sites_data.sites[i], "dust", 50)

(***************************************************************************)
(* Properties of the alerts.                                               *)
(***************************************************************************)
\* how many alerts of a type generate_alerts returned
AlertCount(type) == Cardinality({i \in 1..Len(alerts) : alerts[i].type = type})

Breach(b) == IF b THEN 1 ELSE 0

\* C18: generate_alerts returns one alert for each quantity that breaches
\* its thresholds, whatever the other quantities do: PM2.5 and PM10 each
\* give an air-quality alert, the flight safety score a flight-safety alert
\* and the visibility a visibility alert.
C18_EachBreachAlerts ==
    "generate_alerts" \in alert_pc =>
        /\ AlertCount("AIR_QUALITY") =
               Breach(aviation_predictions["PM2.5"] > thresholds.pm25.moderate)
               + Breach(aviation_predictions["PM10"] > thresholds.pm10.moderate)
        /\ AlertCount("FLIGHT_SAFETY") =
               Breach(aviation_predictions["Flight_Safety_Score"]
                          < thresholds.flight_safety.moderate_risk)
        /\ AlertCount("VISIBILITY") =
               Breach(aviation_predictions["Visibility_Est"] < thresholds.visibility.poor)

\* position of an alert type in the order of the list
TypeRank(type) ==
    CASE type = "AIR_QUALITY" -> 1
      [] type = "FLIGHT_SAFETY" -> 2
      [] type = "VISIBILITY" -> 3

\* C19: in the list generate_alerts returns, air-quality alerts come first,
\* then flight-safety alerts, then visibility alerts.
C19_AlertOrder ==
    \A i, j \in 1..Len(alerts) :
        i < j => TypeRank(alerts[i].type) <= TypeRank(alerts[j].type)

\* a prediction set that breaches all three kinds of threshold
C19_Witness ==
    /\ "generate_alerts" \in alert_pc
    /\ Len(alerts) = 3
    /\ alerts[1].type = "AIR_QUALITY"
    /\ alerts[3].type = "VISIBILITY"

\* a <= b for two floats
RatLeq(a, b) ==
    \/ a.num \div a.den < b.num \div b.den
    \/ /\ a.num \div a.den = b.num \div b.den
       /\ (a.num % a.den) * b.den <= (b.num % b.den) * a.den

\* the alerts generate_forecast_alerts returned for a horizon
AlertsFor(h) ==
    LET About(a) == a.horizon = h
    IN  SelectSeq(forecast_alerts, About)

\* C20: for every horizon of the dict the overall AQI is the greater of the
\* PM2.5 AQI and the PM10 AQI; the horizon gets exactly one HIGH alert when
\* that exceeds 150, exactly one MODERATE alert when it is above 100 and at
\* most 150, and none otherwise.  PM2.5 200 with PM10 50 gets a HIGH alert
\* whose AQI is that of PM2.5.
C20_OverallAqiAlerts ==
    "generate_forecast_alerts" \in alert_pc =>
        /\ \A i \in 1..Len(forecast_alerts) : forecast_alerts[i].horizon \in DOMAIN forecasts
        /\ \A h \in DOMAIN forecasts :
               LET a25 == ForecasterCalculateAqi(100 * forecasts[h].pm25, "pm25")
                   a10 == ForecasterCalculateAqi(100 * forecasts[h].pm10, "pm10")
                   mine == AlertsFor(h)
                   high == Exceeds(a25, 150) \/ Exceeds(a10, 150)
                   moderate == ~high /\ (Exceeds(a25, 100) \/ Exceeds(a10, 100))
               IN  /\ Len(mine) = Breach(high \/ moderate)
                   /\ high => mine[1].level = "HIGH"
                   /\ moderate => mine[1].level = "MODERATE"
                   /\ Len(mine) = 1 =>
                          /\ mine[1].aqi \in {a25, a10}
                          /\ RatLeq(a25, mine[1].aqi)
                          /\ RatLeq(a10, mine[1].aqi)
                   /\ (forecasts[h].pm25 = 200 /\ forecasts[h].pm10 = 50) =>
                          /\ Len(mine) = 1
                          /\ mine[1].level = "HIGH"
                          /\ mine[1].aqi = a25
                          /\ mine[1].aqi.num \div mine[1].aqi.den = 250

\* a dict with a MODERATE horizon driven by PM10 and the horizon of PM2.5
\* 200 with PM10 50
C20_Witness ==
    /\ "generate_forecast_alerts" \in alert_pc
    /\ DOMAIN forecasts = {1, 48}
    /\ forecasts[1].pm25 = 10
    /\ forecasts[48].pm25 = 200
    /\ forecasts[48].pm10 = 50
    /\ Len(forecast_alerts) = 2
    /\ forecast_alerts[1].level = "MODERATE"
    /\ forecast_alerts[2].level = "HIGH"

\* every implementation has returned
AllCalled == called = {"forecaster", "dashboard", "simple", "training"}

\* C27: the calculate_aqi implementations agree on every pollutant and
\* concentration: the forecaster's result rounded to the nearest integer
\* equals the result of the dashboard service, of simple_ml_predictor and of
\* the training-time implementation.
C27_ImplementationsAgree ==
    AllCalled =>
        /\ Round(aqi_forecast) = aqi_dashboard
        /\ aqi_dashboard = aqi_simple
        /\ aqi_simple = aqi_training

\* 2 for an AQI that raises a HIGH forecast alert, 1 for MODERATE, else 0
Severity(a) == IF Exceeds(a, 150) THEN 2 ELSE IF Exceeds(a, 100) THEN 1 ELSE 0

\* C28: calculate_aqi is non-decreasing in the concentration from 0 up, on
\* the grid of hundredths: the next concentration of the grid never has a
\* lower AQI, in the forecaster and in the dashboard service, nor a less
\* severe forecast alert.
C28_AqiMonotone ==
    (AllCalled /\ concentration >= 0 /\ concentration < MaxConc) =>
        /\ RatLeq(aqi_forecast, ForecasterCalculateAqi(concentration + 1, pollutant))
        /\ aqi_dashboard <= DashboardCalculateAqi(concentration + 1, pollutant)
        /\ Severity(aqi_forecast)
              <= Severity(ForecasterCalculateAqi(concentration + 1, pollutant))

\* how many site indicators of a frame equal one
IndicatorsSet(frame, one) ==
    Cardinality({i \in 1..Len(frame) : IsCityCol(frame[i].col) /\ frame[i].val = one})

\* C25: the site indicator built at inference is one-hot: for every site
\* and region given to create_features_for_location at most one of
\* City_Musandam, City_Muscat, City_Salalah is 1, and the city indicator
\* row built by forecast_next_48_hours has at most one column equal to 1.
C25_IndicatorOneHot ==
    /\ dash_pc = "predicted" =>
           IndicatorsSet(create_features_for_location(request, now), Rat(1, 1)) <= 1
    /\ outcome = "returned" =>
           /\ IndicatorsSet(CityDummies(current_conditions, feature_columns), 1) <= 1
           /\ IndicatorsSet(X_current, 1) <= 1

\* C26: in predict_conditions a model whose predict call fails gets its
\* fixed fallback value (PM2.5 20, PM10 40, Visibility_Est 15,
\* Flight_Safety_Score 0.7, Overall_AQI 50) and nothing is raised, every
\* other target is still predicted, and the result always has an AQI entry
\* equal to the greater of the PM2.5 AQI and the PM10 AQI.
C26_FailedModelFallsBack ==
    dash_pc = "predicted" =>
        /\ DOMAIN predictions = Range(dash_models) \cup {"AQI"}
        /\ \A t \in Range(dash_models) :
               IF Raises(dash_output, t)
               THEN predictions[t] = (CASE t = "PM2.5" -> 2000
                                        [] t = "PM10" -> 4000
                                        [] t = "Visibility_Est" -> 1500
                                        [] t = "Flight_Safety_Score" -> 70
                                        [] t = "Overall_AQI" -> 5000
                                        [] OTHER -> 0)
               ELSE predictions[t] = ClampAtZero(Predicted(dash_output, t))
        /\ \E a25 \in {DashboardCalculateAqi(IF "PM2.5" \in DOMAIN predictions
                                               THEN predictions["PM2.5"] ELSE 2000, "pm25")} :
           \E a10 \in {DashboardCalculateAqi(IF "PM10" \in DOMAIN predictions
                                               THEN predictions["PM10"] ELSE 4000, "pm10")} :
               /\ predictions["AQI"] \in {a25, a10}
               /\ predictions["AQI"] >= a25
               /\ predictions["AQI"] >= a10

\* the PM2.5 model failed and the PM10 model answered
C26_Witness ==
    /\ dash_pc = "predicted"
    /\ dash_output = "pm25_raises"
    /\ "PM10" \in DOMAIN predictions
    /\ predictions["PM2.5"] = 2000
    /\ predictions["PM10"] = 1500
    /\ predictions["AQI"] > 0

\* the moments a call may be made at
Clocks == [weekday : Weekdays, month : Months]

\* C22: feature reconstruction is deterministic: a second call of
\* create_features_for_location with the same request record returns the
\* same names, in the same order, with the same values, at whatever
\* wall-clock time it is made.
C22_ReconstructionDeterministic ==
    dash_pc = "predicted" =>
        \A later \in Clocks :
            create_features_for_location(request, later)
                = create_features_for_location(request, now)

\* C23: in load_and_prepare_data the 24-row rolling mean of pressure behind
\* the Pressure_Stability of a row is taken over rows of the row's own site
\* alone, in that site's time order: the row and the 23 before it in its
\* site's series.
C23_PressureWindowWithinSite ==
    aviation_pc = "prepared" =>
        \A i \in 1..Len(aviation_data) :
            \E r \in {aviation_data[i]} :
                /\ r.DateTime >= PressureWindow
                /\ r.Pressure_Stability.den = PressureWindow
                /\ \E own \in {[k \in 1..PressureWindow |->
                                   Measurement("Pressure", r.City,
                                               r.DateTime - PressureWindow + k)]} :
                       r.Pressure_Stability.num
                           = Abs(PressureWindow * r.raw["Pressure"]
                                   - SumRange(own, 1, PressureWindow))

\* equality of two rationals
SameRat(a, b) == IF a.den = b.den THEN a.num = b.num ELSE a.num * b.den = b.num * a.den

DerivedFeatures ==
    {"Visibility_Est", "Turbulence_Risk", "Air_Density", "Dust_Wind_Factor",
     "Pressure_Stability", "Temp_Humidity_Index"}

\* the training-time features of a row with the readings of the request,
\* the given particulate readings and a pressure that has not moved for a
\* day
TrainingRowOf(req, pm25, pm10) ==
    LET steady == [k \in 1..PressureWindow |-> req.pressure]
        stability == PressureStability(steady, RollingMeanFull(steady, PressureWindow))
    IN  training_features([temperature |-> req.temperature, humidity |-> req.humidity,
                           wind_speed |-> req.wind_speed, pressure |-> req.pressure,
                           dust |-> req.dust, pm25 |-> pm25, pm10 |-> pm10],
                          stability[PressureWindow])

\* particulate readings a training row may carry next to the request's own
TrainingPM == {0, 20, 40}

\* the feature has the same value at inference and in some such training row
AgreesWithTraining(name) ==
    \E pm25 \in TrainingPM, pm10 \in TrainingPM :
        SameRat(ValueOf(create_features_for_location(request, now), Feature(name)),
                ValueOf(TrainingRowOf(request, pm25, pm10), Feature(name)))

\* C21: for the same raw inputs each derived feature computed by
\* create_features_for_location (Visibility_Est, Turbulence_Risk,
\* Air_Density, Dust_Wind_Factor, Pressure_Stability, Temp_Humidity_Index)
\* equals the value load_and_prepare_data and its calculate_ helpers compute
\* for it at training time.
C21_InferenceMatchesTraining ==
    dash_pc = "predicted" => \A name \in DerivedFeatures : AgreesWithTraining(name)

\* C30: whatever the inputs and the noise drawn, ml_predict_conditions
\* returns pm25 >= 1, pm10 >= 2, dust >= 10, a visibility between 0.5 and
\* 50, a flight_safety_score between 0 and 1 and an AQI in 0..500.
C30_SimplePredictionBounds ==
    DOMAIN simple_prediction # {} =>
        /\ simple_prediction.pm25 >= 100
        /\ simple_prediction.pm10 >= 200
        /\ simple_prediction.dust >= 1000
        /\ simple_prediction.visibility >= 50
        /\ simple_prediction.visibility <= 5000
        /\ simple_prediction.flight_safety_score >= 0
        /\ simple_prediction.flight_safety_score <= 1000
        /\ simple_prediction.AQI \in 0..500

\* a prediction whose three draws were negative and whose PM2.5 was raised
\* to the floor
C30_Witness ==
    /\ DOMAIN simple_prediction # {}
    /\ noise.pm25 < 0 /\ noise.pm10 < 0 /\ noise.dust < 0
    /\ simple_request.base_pm25 = 0
    /\ simple_prediction.pm25 = 100

\* C11: every quantity the inference operations return is non-negative
\* whatever the model answered: each pm25 and pm10 of the forecast and each
\* entry of the dashboard predictions, fallback values and AQI included.
C11_PredictionsNonNegative ==
    /\ \A h \in DOMAIN forecasts : forecasts[h].pm25 >= 0 /\ forecasts[h].pm10 >= 0
    /\ \A t \in DOMAIN predictions : predictions[t] >= 0

\* a forecast was returned although a model answered a negative value
C11_Witness ==
    /\ outcome = "returned"
    /\ DOMAIN forecasts # {}
    /\ model_output.pm25 < 0

(***************************************************************************)
(* Properties of the artifact store and the prediction service.            *)
(***************************************************************************)
\* the service is started with a command while the aviation artifact is
\* absent or loadable, so only the forecast artifact can stop the load
ServiceLoadsForecastArtifact ==
    /\ exit_status = NoInt
    /\ exit_status' # NoInt
    /\ Len(argv) > 0
    /\ aviation_pkl.state \in {"absent", "saved"}

\* C13: after save_forecast_models has written the artifact, load_models
\* succeeds (the process does not exit in it) and forecast_models and
\* forecast_feature_columns equal the saved models and feature_columns.
C13_SavedArtifactLoads ==
    [][(pc = "saved" /\ ServiceLoadsForecastArtifact) =>
           /\ dash_pc' # "exited"
           /\ forecast_models' = models
           /\ forecast_feature_columns' = feature_columns]_vars

\* the service was asked for predictions and has ended
PredictionsAsked ==
    /\ exit_status # NoInt
    /\ Len(argv) > 0
    /\ argv[1] \in {"test", "predict"}

\* C14: when the model artifact is missing or corrupt, the service started
\* with the test or predict command ends with a failure status and returns
\* no predictions.
C14_NoArtifactIsFatal ==
    (PredictionsAsked /\ aviation_pkl.state \in {"absent", "corrupt"}) =>
        /\ exit_status = 1
        /\ results = <<>>

Init == AqiIdle /\ InitTrain

Next == NextTrain

Spec == Init /\ [][Next]_vars

====
